---- MODULE Spec2Model ----
(***************************************************************************)
(* Model of instamatic's cRED acquisition loop                             *)
(* (src/instamatic/experiments/cred/experiment.py, Experiment).            *)
(*                                                                         *)
(* One session of Experiment.start_collection is a sequence of steps, one  *)
(* per stretch of code between two blocking calls (getImage, raw_input,    *)
(* the timing loops).  The stop event is set by the caller's thread at any *)
(* moment.  Time is an integer clock; the average frame interval           *)
(* acquisition_time = (t_start - t0) / (i - 1) is kept as an exact         *)
(* fraction and every comparison against it is made by cross               *)
(* multiplication.  Images are reduced to what the loop reads from them:   *)
(* the number of features find_holes reports and the drift that            *)
(* register_translation measures.                                          *)
(*                                                                         *)
(* Two more specifications share the module.  SpecCalibStage evaluates the *)
(* coordinate conversions of CalibStage (calibrate_stage_lowmag.py) on     *)
(* integer inputs.  SpecScan runs one calibration routine: the grid scan   *)
(* of calibrate_stage_lowmag.py, the step scan and the sweep of            *)
(* calibrate_stagematrix.py, the image-shift scan of experiment.py; every  *)
(* hardware call is entered in a log.  Each specification leaves the       *)
(* variables of the others at their initial values.                        *)
(***************************************************************************)
EXTENDS Integers, Sequences, FiniteSets, TLC

\* ---------------------------------------------------------------- bounds

\* The recording loop takes no new frame once the frame counter passed this.
MaxFrames == 7
\* A diffraction frame (exposure expt) takes MinDiffDur..MaxDiffDur ticks.
MaxDiffDur == 3
\* A tracking frame (exposure expt/5 or expt/10) takes 1..MaxTrackDur ticks.
MaxTrackDur == 2
\* find_holes + register_translation take 0..MaxProcDelay ticks.
MaxProcDelay == 3
\* The operator asks to redo the on-demand calibration at most this often.
MaxRedo == 2

MinDiffDur == 2

\* ---------------------------------------------------------------- inputs

Intervals == {1, 2, 3, 5}
DefocusValues == {7}
FocusValues == {3}
CamTypes == {"simulate", "timepix"}
\* stage rotation angles, in tenths of a degree
StartAngles == {10}
ArmedReadings == {-3, 0, 1, 2}
EndRotations == {0, 40}
FeatureCounts == 0..2
Drifts == {<<0, 0>>, <<1, -1>>}
Transforms == {<<<<1, 2>>, <<0, 1>>>>, <<<<2, 0>>, <<0, 2>>>>}
BeamShifts == {<<0, 0>>, <<10, -5>>}
NoCalib == <<>>

\* what the operator is told, lines 147, 194 and 289
MsgNoCalibration == "No calibration result found. Running instamatic.calibrate_beamshift first..."
MsgSeparated == "Please find another nicely SEPARATED crystal for autotracking."
MsgTwoApertures == "At least two apertures found!! Exitting auto mode..."

\* ----------------------------------------------------------------- state

VARIABLES
    pc,               \* position of the control thread in start_collection
    camtype,          \* self.camtype
    a0,               \* stage angle read when the session starts
    a,                \* stage angle last read
    startangle,       \* self.startangle
    endangle,         \* self.endangle
    mode,             \* self.mode
    image_interval,   \* self.image_interval
    diff_defocus,     \* self.diff_defocus
    stopEvent,        \* self.stopEvent.is_set()
    calib_beamshift,  \* self.calib_beamshift.transform, NoCalib when the attribute is unset
    redo,             \* on-demand calibration passes run so far
    i,                \* frame counter
    buffer,           \* diffraction frame indices
    image_buffer,     \* tracking frame indices
    now,              \* time.time()
    t0,               \* recording start
    t_start,          \* start of the current tracking frame
    acquisition_time, \* [num, den]: (t_start - t0) / (i - 1)
    next_interval,    \* [num, off]: the scheduled timestamp, see NextInterval
    features,         \* len(aperture_position) of the last tracking image
    bs0,              \* <<bs_x0, bs_y0>>: running beam-shift target
    beamshift,        \* ctrl.beamshift: the hardware's beam shift
    difffocus,        \* ctrl.difffocus.value
    diff_focus_proper, \* the focus read at session start
    message,          \* last message printed for the operator
    error,            \* exception that left start_collection, "" when none
    handed,           \* frames handed to ImgConversion, <<-1>> before the hand-off
    tiff_images,      \* tracking frames written by write_tiff
    nframes,          \* nframes of line 383
    unblank_beam,     \* self.unblank_beam
    beamblank,        \* ctrl.beamblank: TRUE while the beam is blanked
    cam_blocked,      \* TRUE between ctrl.cam.block() and ctrl.cam.unblock()
    osangle,          \* [num, den]: abs(endangle - startangle) / nframes
    \* history of the session, for the statements about it
    commands,         \* number of beam-shift commands issued
    bs_init,          \* beam shift read at session start
    drift_sum,        \* sum of the transformed drifts applied
    skipped,          \* frame indices passed over by frame-skip accounting
    stop_set,         \* [pc, i]: where the session was when the stop flag was set
    last_wait,        \* the last timing wait: the clock and counter it began with
    focus_init        \* ctrl.difffocus.value when the session object was made

\* a CalibStage object and one evaluation of its conversions
\* (src/instamatic/calibrate/calibrate_stage_lowmag.py)
VARIABLES
    rotation,           \* self.rotation, rows <<r11, r12>>, <<r21, r22>>
    translation,        \* self.translation
    reference_position, \* self.reference_position
    image_pos,          \* stage position the current image was captured at
    arg,                \* the point handed to the first conversion
    applied,            \* names of the conversions applied so far, in order
    val,                \* what the first conversion returned
    back                \* what the second conversion returned for val

xf_vars == <<rotation, translation, reference_position, image_pos, arg, applied,
             val, back>>

\* one run of a calibration routine: calibrate_stage_lowmag_live (the grid
\* scan), calibrate_stage, calibrate_stage_from_stagepos (the step scan) and
\* calibrate_stage_all of calibrate_stagematrix.py, Calibrate_Imageshift of
\* experiment.py
VARIABLES
    routine,        \* the routine called, "" when none
    scan_pc,        \* position of the routine
    stage,          \* ctrl.stage.xy / ctrl.stageposition: the stage's <<x, y>>
    imageshift,     \* ctrl.imageshift: the image-shift deflector's <<x, y>>
    ctrl_mode,      \* ctrl.mode
    magnification,  \* ctrl.magnification.value
    start,          \* <<stage_x, stage_y>>, <<x_cent, y_cent>> or <<x0, y0>>
    gridsize,       \* argument of calibrate_stage_lowmag_live
    stepsize,       \* argument of calibrate_stage_lowmag_live
    args,           \* the runs of the step scan: <<n_steps, step>> each
    drc,            \* directory of the step scan's images, "None" when not given
    pixelsize,      \* config.calibration[mode]['pixelsize'][mag]
    scan_i,         \* the loop counter i: grid point, or run of the step scan
    scan_j,         \* the loop counter j of the step scan, of Calibrate_Imageshift
    stagepos,       \* grid scan: the stage positions read from the headers
    pairs,          \* step scan: <<last_img, img>>, an image being its <<j, i>>
    stage_shifts,   \* step scan: the displacement of each pair
    mag_ranges,     \* calibrate_stage_all: the magnifications to calibrate
    cfg,            \* calibrate_stage_all: the configuration returned
    work_subdirs,   \* directories made by get_new_work_subdirectory
    scan_error,     \* exception that left the routine, "" when none
    \* history of the routine, for the statements about it
    called_at,      \* the instrument's position when the routine was called
    log             \* hardware calls made, [op, at] each, in order

scan_vars == <<routine, scan_pc, stage, imageshift, ctrl_mode, magnification, start, gridsize,
               stepsize, args, drc, pixelsize, scan_i, scan_j, stagepos, pairs,
               stage_shifts, mag_ranges, cfg, work_subdirs, scan_error, called_at,
               log>>

\* one call of get_outlier_filter and the selection made with its result
\* (src/instamatic/calibrate/calibrate_stagematrix.py)
VARIABLES
    filter_pc,      \* "idle", "called", "filtered", "selected"
    data,           \* the pixel shifts handed to get_outlier_filter
    threshold,      \* its threshold
    sel,            \* the boolean array it returns
    n_filtered,     \* the number of outliers it prints, -1 when it prints none
    translations,   \* np.array(translations)[sel]
    shifts_all,     \* stage_shifts as collected, one for each pixel shift
    shifts_sel      \* np.array(stage_shifts)[sel]

filter_vars == <<filter_pc, data, threshold, sel, n_filtered, translations,
                 shifts_all, shifts_sel>>

\* CalibStage.to_file and CalibStage.from_file on one file name
\* (src/instamatic/calibrate/calibrate_stage_lowmag.py); the object saved is
\* the CalibStage of rotation, translation, reference_position
VARIABLES
    file_pc,        \* "idle", "ready", from_file "returned" or "raised",
                    \* to_file "save_raised"
    has_data,       \* self.has_data of the object saved
    fn,             \* the file name
    fs,             \* the file fn: [state, blob], state "absent", "denied", "file"
    loaded,         \* what from_file returned, NoObject before it has
    file_error,     \* the exception that left the call: [type, message]
    \* history, for the statements
    persisted       \* the object whose dump the file holds, NoObject when none

file_vars == <<file_pc, has_data, fn, fs, loaded, file_error, persisted>>

\* an EMMenuWrapper and the desktop it clicks on
\* (src/instamatic/camera/camera_emmenu.py)
VARIABLES
    win_active,       \* the active window: pw.getActiveWindow()
    win_previous,     \* self.win_previous, "None" or a window
    pointer,          \* pg.position()
    self_switch_back, \* self._switch_back
    focus,            \* keep_in_focus: "closed", or "open" between yield and exit
    was_active,       \* the local was_active of keep_in_focus
    \* history, for the statements
    last_press,       \* the last call of _press: what it found and what it left
    last_look,        \* the last call of live_view_is_running or locate_buttons:
                      \* the active window it found and the one it left
    switches          \* who activated another window since keep_in_focus was
                      \* entered: "press", "live_view_is_running", "exit"

em_vars == <<win_active, win_previous, pointer, self_switch_back, focus, was_active,
             last_press, last_look, switches>>

\* the crops of start_collection: the reference crop of the setup and the
\* crop of every tracking image (src/instamatic/experiments/cred/experiment.py).
\* Centroids are kept doubled, so that half pixels are integers.
VARIABLES
    crop_pc,        \* "idle", "setup", "tracking", "cropped", "raised"
    img_shape,      \* img0.shape, img.shape: <<rows, columns>>
    bbox,           \* prop.bbox of the reference feature: <<y1, x1, y2, x2>>
    crystal_pos,    \* crystal_pos = [cy, cx], doubled
    window_size,    \* window_size
    img0_cropped,   \* img0_cropped.shape
    img_cropped,    \* img_cropped.shape
    n_cropped       \* tracking images cropped so far

crop_vars == <<crop_pc, img_shape, bbox, crystal_pos, window_size, img0_cropped,
               img_cropped, n_cropped>>

\* the variables of the helpers modelled on their own
lib_vars == <<filter_vars, file_vars, em_vars, crop_vars>>

session_vars == <<pc, camtype, a0, a, startangle, endangle, mode, image_interval, diff_defocus, stopEvent, calib_beamshift, redo,
          i, buffer, image_buffer, now, t0, t_start, acquisition_time,
          next_interval, features, bs0, beamshift, difffocus, diff_focus_proper, message, error,
          handed, tiff_images, nframes, osangle, commands, bs_init, drift_sum, skipped,
          stop_set, last_wait, focus_init, unblank_beam, beamblank, cam_blocked>>

vars == <<session_vars, xf_vars, scan_vars, lib_vars>>

\* what no step of start_collection assigns
still_vars == <<focus_init, unblank_beam, xf_vars, scan_vars, lib_vars>>
resource_vars == <<beamblank, cam_blocked>>
config_vars == <<mode, image_interval, diff_defocus>>
focus_vars == <<difffocus, diff_focus_proper>>
time_vars == <<now, t0, t_start, acquisition_time, next_interval>>
beam_vars == <<bs0, beamshift, commands, bs_init, drift_sum>>
out_vars == <<handed, tiff_images, nframes, osangle>>
angle_vars == <<a0, a, startangle, endangle>>
hist_vars == <<skipped, stop_set, last_wait>>
buf_vars == <<i, buffer, image_buffer>>

NotHanded == <<-1>>
NoWait == [i_before |-> 0, t_end |-> 0, ts |-> 0, num |-> 0, den |-> 1, skip |-> 0]

\* ------------------------------------------------------------- operators

Abs(x) == IF x < 0 THEN -x ELSE x

VecAdd(u, v) == <<u[1] + v[1], u[2] + v[2]>>

\* np.matmul(transform, cc): the 2x2 matrix times the column vector cc
MatVec(m, v) == <<m[1][1] * v[1] + m[1][2] * v[2], m[2][1] * v[1] + m[2][2] * v[2]>>

Indices(buf) == {buf[k] : k \in 1..Len(buf)}

\* ACTIVATION_THRESHOLD = 0.2 degrees, in tenths of a degree
ACTIVATION_THRESHOLD == 2

Terminal == {"stopped", "returned", "raised"}
InLoop == {"loop", "diff_capture", "track_begin", "track_capture", "track_correct",
           "track_wait"}

\* ------------------------------------------------------------------ Init

\* no CalibStage object is in use
NoTransform ==
    /\ rotation = <<<<1, 0>>, <<0, 1>>>>
    /\ translation = <<0, 0>>
    /\ reference_position = <<0, 0>>
    /\ image_pos = <<0, 0>>
    /\ arg = <<0, 0>>
    /\ applied = <<>>
    /\ val = <<0, 0>>
    /\ back = <<0, 0>>

NoCfg == [lowmag |-> [stagematrix |-> {}, pixelsize |-> {}],
          mag1 |-> [stagematrix |-> {}, pixelsize |-> {}]]

\* what a calibration routine finds when it is called, but for the hardware
ScanLocals ==
    /\ routine = ""
    /\ scan_pc = "idle"
    /\ start = <<0, 0>>
    /\ gridsize = 0
    /\ stepsize = 0
    /\ args = <<>>
    /\ drc = "None"
    /\ pixelsize = 0
    /\ scan_i = 0
    /\ scan_j = 0
    /\ stagepos = <<>>
    /\ pairs = <<>>
    /\ stage_shifts = <<>>
    /\ mag_ranges = [lowmag |-> <<>>, mag1 |-> <<>>]
    /\ cfg = NoCfg
    /\ work_subdirs = 0
    /\ scan_error = ""
    /\ called_at = <<0, 0>>
    /\ log = <<>>

\* no calibration routine is called
NoScan ==
    /\ ScanLocals
    /\ stage = <<0, 0>>
    /\ imageshift = <<0, 0>>
    /\ ctrl_mode = "mag1"
    /\ magnification = 1000

\* Experiment.__init__
InitSession ==
    /\ pc = "idle"
    /\ camtype \in CamTypes
    /\ a0 = 0 /\ a = 0 /\ startangle = 0 /\ endangle = 0
    /\ mode = "initial"
    /\ image_interval = 99999
    /\ diff_defocus = 0
    /\ stopEvent = FALSE
    /\ calib_beamshift = NoCalib
    /\ redo = 0
    /\ i = 0
    /\ buffer = <<>>
    /\ image_buffer = <<>>
    /\ now = 0 /\ t0 = 0 /\ t_start = 0
    /\ acquisition_time = [num |-> 0, den |-> 1]
    /\ next_interval = [num |-> 0, off |-> 0]
    /\ features = 0
    /\ bs0 = <<0, 0>>
    /\ beamshift \in BeamShifts
    /\ difffocus \in FocusValues
    /\ focus_init = difffocus
    /\ diff_focus_proper = 0
    /\ message = ""
    /\ error = ""
    /\ handed = NotHanded
    /\ tiff_images = <<>>
    /\ nframes = 0
    /\ osangle = [num |-> 0, den |-> 1]
    /\ commands = 0
    /\ bs_init = <<0, 0>>
    /\ drift_sum = <<0, 0>>
    /\ skipped = {}
    /\ stop_set = [pc |-> "", i |-> 0]
    /\ last_wait = NoWait
    /\ unblank_beam \in BOOLEAN
    \* between sessions the beam is blanked and the camera is free
    /\ beamblank = TRUE
    /\ cam_blocked = FALSE

\* no session is made: the Experiment object is left as constructed
NoSession ==
    /\ InitSession
    /\ camtype = "simulate"
    /\ beamshift = <<0, 0>>
    /\ unblank_beam = FALSE
    /\ difffocus = 3

\* get_outlier_filter is not called
NoFilter ==
    /\ filter_pc = "idle"
    /\ data = <<>>
    /\ threshold = 2
    /\ sel = <<>>
    /\ n_filtered = -1
    /\ translations = <<>>
    /\ shifts_all = <<>>
    /\ shifts_sel = <<>>

NoObject == [rotation |-> <<>>, translation |-> <<>>, reference_position |-> <<>>,
             has_data |-> FALSE]
NoFile == [state |-> "absent", blob |-> <<>>]
NoError == [type |-> "", message |-> <<>>]

\* neither to_file nor from_file is called
NoPersistence ==
    /\ file_pc = "idle"
    /\ has_data = FALSE
    /\ fn = ""
    /\ fs = NoFile
    /\ loaded = NoObject
    /\ file_error = NoError
    /\ persisted = NoObject

NoPress == [button |-> "", focus |-> "", clicked_at |-> <<0, 0>>, clicked_in |-> "",
            active_before |-> "", active_after |-> "", pointer_before |-> <<0, 0>>,
            pointer_after |-> <<0, 0>>]

NoLook == [by |-> "", active_before |-> "", active_after |-> "", raised |-> FALSE]

\* no EMMenuWrapper is made
NoEMMenu ==
    /\ win_active = "EMMENU4"
    /\ win_previous = "None"
    /\ pointer = <<0, 0>>
    /\ self_switch_back = TRUE
    /\ focus = "closed"
    /\ was_active = FALSE
    /\ last_press = NoPress
    /\ last_look = NoLook
    /\ switches = <<>>

\* nothing is cropped
NoCrop ==
    /\ crop_pc = "idle"
    /\ img_shape = <<0, 0>>
    /\ bbox = <<0, 0, 0, 0>>
    /\ crystal_pos = <<0, 0>>
    /\ window_size = 0
    /\ img0_cropped = <<0, 0>>
    /\ img_cropped = <<0, 0>>
    /\ n_cropped = 0

\* no helper is called
NoLib ==
    /\ NoFilter
    /\ NoPersistence
    /\ NoEMMenu
    /\ NoCrop

Init ==
    /\ InitSession
    /\ NoTransform
    /\ NoScan
    /\ NoLib

\* --------------------------------------------------------- configuration

\* enable_image_interval(interval, defocus)
EnableImageInterval ==
    /\ pc = "idle"
    /\ \E interval \in Intervals, defocus \in DefocusValues :
        /\ diff_defocus' = defocus
        /\ image_interval' = interval
        /\ mode' = "manual"
    /\ UNCHANGED <<still_vars, resource_vars, pc, camtype, angle_vars, stopEvent, calib_beamshift, redo, buf_vars,
                   time_vars, features, beam_vars, focus_vars, message, error,
                   out_vars, hist_vars>>

\* enable_autotrack(interval, defocus)
EnableAutotrack ==
    /\ pc = "idle"
    /\ \E interval \in Intervals, defocus \in DefocusValues :
        /\ diff_defocus' = defocus
        /\ image_interval' = interval
        /\ mode' = "auto"
    /\ UNCHANGED <<still_vars, resource_vars, pc, camtype, angle_vars, stopEvent, calib_beamshift, redo, buf_vars,
                   time_vars, features, beam_vars, focus_vars, message, error,
                   out_vars, hist_vars>>

\* stopEvent.set(), by the caller's thread, at any moment of the session
SetStop ==
    /\ pc \notin Terminal
    /\ pc # "idle"
    /\ ~stopEvent
    /\ stopEvent' = TRUE
    /\ stop_set' = [pc |-> pc, i |-> i]
    /\ UNCHANGED <<still_vars, resource_vars, pc, camtype, angle_vars, config_vars, calib_beamshift, redo, buf_vars,
                   time_vars, features, beam_vars, focus_vars, message, error,
                   out_vars, skipped, last_wait>>

\* an exception leaves start_collection: nothing after the raising call runs
Raise(name) ==
    /\ pc' = "raised"
    /\ error' = name

\* ------------------------------------------------- start_collection, setup

\* start_collection, lines 117-142: read the stage angle, create the buffers
StartCollection ==
    /\ pc = "idle"
    /\ \E r \in StartAngles : a0' = r /\ a' = r
    /\ buffer' = <<>>
    /\ image_buffer' = <<>>
    /\ pc' = IF mode = "auto" THEN "calib_imageshift" ELSE "arm"
    /\ UNCHANGED <<still_vars, resource_vars, camtype, startangle, endangle, config_vars, stopEvent,
                   calib_beamshift, redo, i, time_vars, features, beam_vars,
                   focus_vars, message, error, out_vars, hist_vars>>

\* a hardware call, and where: the target of a move, the place of anything else
Call(op, at) == [op |-> op, at |-> at]

\* an exception leaves the routine
ScanRaise(name) ==
    /\ scan_pc' = "raised"
    /\ scan_error' = name

\* Calibrate_Imageshift, lines 20-36: the image shift read, the center image
\* (it comes or getImage raises), the operator's ENTER
ImageshiftStartStep ==
    /\ scan_pc = "idle"
    /\ routine' = "Calibrate_Imageshift"
    /\ called_at' = imageshift
    /\ start' = imageshift
    /\ scan_i' = 0
    /\ scan_j' = 0
    /\ \/ /\ log' = Append(log, Call("getImage", imageshift))
          /\ scan_pc' = "imageshift"
          /\ UNCHANGED scan_error
       \/ /\ ScanRaise("HardwareError")
          /\ UNCHANGED log
    /\ UNCHANGED <<xf_vars, lib_vars, stage, imageshift, ctrl_mode, magnification,
                   gridsize, stepsize, args, drc, pixelsize, stagepos, pairs,
                   stage_shifts, mag_ranges, cfg, work_subdirs>>

\* the point <<i, j>> of the 5 x 5 image-shift grid, lines 40 and 43
ImageshiftTarget ==
    <<start[1] + (scan_i - 2) * 2500, start[2] + (scan_j - 2) * 2500>>

\* lines 38-40: the image shift set to the next point of the grid; the
\* routine then waits in getImage
ImageshiftSetStep ==
    /\ scan_pc = "imageshift"
    /\ scan_i < 5
    /\ imageshift' = ImageshiftTarget
    /\ log' = Append(log, Call("imageshift.set", ImageshiftTarget))
    /\ scan_pc' = "imageshift_wait"
    /\ UNCHANGED <<xf_vars, lib_vars, routine, stage, ctrl_mode,
                   magnification, start, gridsize, stepsize, args, drc, pixelsize,
                   scan_i, scan_j, stagepos, pairs, stage_shifts, mag_ranges, cfg,
                   work_subdirs, scan_error, called_at>>

\* lines 41-46: the image of the point comes and the loop goes on to the
\* next point, or getImage raises
ImageshiftImageStep ==
    /\ scan_pc = "imageshift_wait"
    /\ \/ /\ log' = Append(log, Call("getImage", imageshift))
          /\ IF scan_j < 4
               THEN scan_j' = scan_j + 1 /\ UNCHANGED scan_i
               ELSE scan_j' = 0 /\ scan_i' = scan_i + 1
          /\ scan_pc' = "imageshift"
          /\ UNCHANGED scan_error
       \/ /\ ScanRaise("HardwareError")
          /\ UNCHANGED <<log, scan_i, scan_j>>
    /\ UNCHANGED <<xf_vars, lib_vars, routine, stage, imageshift, ctrl_mode,
                   magnification, start, gridsize, stepsize, args, drc, pixelsize,
                   stagepos, pairs, stage_shifts, mag_ranges, cfg, work_subdirs,
                   called_at>>

\* lines 48-54: the image shift set back, the fit
ImageshiftFinishStep ==
    /\ scan_pc = "imageshift"
    /\ scan_i = 5
    /\ imageshift' = start
    /\ log' = Append(log, Call("imageshift.set", start))
    /\ scan_pc' = "done"
    /\ UNCHANGED <<xf_vars, lib_vars, routine, stage, ctrl_mode, magnification,
                   start, gridsize, stepsize, args, drc, pixelsize, scan_i, scan_j,
                   stagepos, pairs, stage_shifts, mag_ranges, cfg, work_subdirs, scan_error,
                   called_at>>

\* Calibrate_Imageshift(self.ctrl) returns: its result is kept in a local only
CalibrateImageshift ==
    /\ pc = "calib_imageshift"
    /\ \/ ImageshiftStartStep
       \/ ImageshiftSetStep
       \/ ImageshiftImageStep
       \/ ImageshiftFinishStep
    /\ pc' = CASE scan_pc' = "done" -> "load_calib"
               [] scan_pc' = "raised" -> "raised"
               [] OTHER -> pc
    /\ error' = IF scan_pc' = "raised" THEN scan_error' ELSE error
    /\ UNCHANGED <<focus_init, unblank_beam, resource_vars, camtype, angle_vars, config_vars,
                   stopEvent, calib_beamshift, redo, buf_vars, time_vars, features,
                   beam_vars, focus_vars, message, out_vars, hist_vars>>

\* lines 156-158: the focus is read and the lens defocused for the reference
\* image
Defocus ==
    /\ diff_focus_proper' = difffocus
    /\ difffocus' = diff_defocus

\* self.calib_beamshift = CalibBeamShift.from_file(), or IOError; when the
\* file is there the reference capture begins
LoadCalib ==
    /\ pc = "load_calib"
    /\ \/ \E tr \in Transforms :
            /\ calib_beamshift' = tr
            /\ Defocus
            /\ pc' = "ref_capture"
            /\ UNCHANGED message
       \/ /\ message' = MsgNoCalibration
          /\ pc' = "ondemand"
          /\ UNCHANGED <<calib_beamshift, focus_vars>>
    /\ UNCHANGED <<still_vars, resource_vars, camtype, angle_vars, config_vars, stopEvent, redo, buf_vars,
                   time_vars, features, beam_vars, error, out_vars,
                   hist_vars>>

\* one pass of the while calib_file == "x" loop, lines 149-154:
\* calibrate_beamshift(ctrl) runs, its return value is dropped (nothing is
\* assigned to self.calib_beamshift), and the operator answers "x" (redo) or ENTER
OnDemandCalib ==
    /\ pc = "ondemand"
    /\ \E answer \in {"x", ""} :
        /\ UNCHANGED calib_beamshift
        /\ redo' = redo + 1
        /\ IF answer = "x"
             THEN redo < MaxRedo /\ pc' = "ondemand" /\ UNCHANGED focus_vars
             ELSE Defocus /\ pc' = "ref_capture"
    /\ UNCHANGED <<still_vars, resource_vars, camtype, angle_vars, config_vars, stopEvent, buf_vars, time_vars,
                   features, beam_vars, message, error, out_vars,
                   hist_vars>>

\* several features accepted, the first one tracked
AtLeastOneFeature(n) == n >= 1

\* lines 174 and 273: len(aperture_position) == 1
SingleFeature(n) == n = 1

\* lines 159-195: the reference image is captured at the defocused setting,
\* the focus restored, the beam shift read from the hardware, find_holes run
\* on the reference image
RefCapture ==
    /\ pc = "ref_capture"
    /\ \/ \E n \in FeatureCounts :
            /\ features' = n
            /\ difffocus' = diff_focus_proper       \* line 160
            /\ UNCHANGED diff_focus_proper
            /\ bs0' = beamshift
            /\ bs_init' = beamshift
            /\ IF SingleFeature(n)
                 THEN pc' = "arm" /\ UNCHANGED message
                 ELSE /\ message' = MsgSeparated
                      /\ pc' = "returned"
            /\ UNCHANGED error
       \/ /\ Raise("HardwareError")
          /\ UNCHANGED <<focus_vars, features, bs0, bs_init, message>>
    /\ UNCHANGED <<still_vars, resource_vars, camtype, angle_vars, config_vars, stopEvent, calib_beamshift, redo,
                   buf_vars, time_vars, beamshift, commands, drift_sum,
                   out_vars, hist_vars>>

\* lines 212-214: if self.unblank_beam: self.ctrl.beamblank = False
Unblank(blanked) == IF unblank_beam THEN FALSE ELSE blanked

\* the beam is left as it is
BlankAgain_never(blanked) == blanked

\* lines 376-378: if self.unblank_beam: self.ctrl.beamblank = True
BlankAgain(blanked) == IF unblank_beam THEN TRUE ELSE blanked

\* lines 212-222: the beam is unblanked if asked for, i = 1, cam.block(),
\* t0 = time.time()
EnterRecording ==
    /\ beamblank' = Unblank(beamblank)
    /\ i' = 1
    /\ cam_blocked' = TRUE
    /\ t0' = now
    /\ pc' = "loop"

\* lines 202-203: a simulated camera records at once
ArmSimulate ==
    /\ pc = "arm"
    /\ camtype = "simulate"
    /\ startangle' = a
    /\ EnterRecording
    /\ UNCHANGED <<still_vars, camtype, a0, a, endangle, config_vars, stopEvent, calib_beamshift,
                   redo, buffer, image_buffer, now, t_start, acquisition_time,
                   next_interval, features, beam_vars, focus_vars, message, error,
                   out_vars, hist_vars>>

\* recording begins on any reading away from the start angle
ActivatedOnAnyMotion(r) == r # a0

\* The angles are doubles.  For a reading r and a start angle s, in tenths of
\* a degree and 2 tenths apart, abs(r/10.0 - s/10.0) is the double 0.2 or
\* falls to one side of it: <<r, s>> is listed in ShortOfThreshold when it is
\* below (abs(1.2 - 1.0) = 0.19999999999999996) and in PastThreshold when it
\* is above (abs(1.1 - 0.9) = 0.20000000000000007); start angles 0..12.
ShortOfThreshold ==
    {<<3, 1>>, <<1, 3>>, <<6, 4>>, <<7, 5>>, <<4, 6>>, <<5, 7>>, <<10, 8>>, <<8, 10>>,
     <<12, 10>>, <<13, 11>>, <<10, 12>>, <<14, 12>>}
PastThreshold ==
    {<<8, 6>>, <<9, 7>>, <<6, 8>>, <<7, 9>>, <<11, 9>>, <<9, 11>>}

\* line 205: abs(a - a0) < ACTIVATION_THRESHOLD
BelowThreshold(r, s) ==
    \/ Abs(r - s) < ACTIVATION_THRESHOLD
    \/ Abs(r - s) = ACTIVATION_THRESHOLD /\ <<r, s>> \in ShortOfThreshold

\* line 207: abs(a - a0) > ACTIVATION_THRESHOLD
AboveThreshold(r, s) ==
    \/ Abs(r - s) > ACTIVATION_THRESHOLD
    \/ Abs(r - s) = ACTIVATION_THRESHOLD /\ <<r, s>> \in PastThreshold

\* lines 205-210: one reading of the stage angle in the activation loop
Activated(r) == ~BelowThreshold(r, a0) \/ AboveThreshold(r, a0)

ArmedPoll ==
    /\ pc = "arm"
    /\ camtype # "simulate"
    /\ \E d \in ArmedReadings :
        LET r == a0 + d IN
        /\ a' = r
        /\ IF Activated(r)
             THEN startangle' = r /\ EnterRecording
             ELSE UNCHANGED <<startangle, i, t0, pc, resource_vars>>
    /\ UNCHANGED <<still_vars, camtype, a0, endangle, config_vars, stopEvent, calib_beamshift,
                   redo, buffer, image_buffer, now, t_start, acquisition_time,
                   next_interval, features, beam_vars, focus_vars, message, error,
                   out_vars, hist_vars>>

\* ------------------------------------------------------ the recording loop

\* a tracking frame one iteration early
IsTrackingFrameOffByOne(n) == (n + 1) % image_interval = 0

\* lines 227 and 335: i % self.image_interval == 0
IsTrackingFrame(n) == n % image_interval = 0

\* The timestamps are doubles.  next_interval is t_start + acquisition_time
\* (line 313) with acquisition_time added once more for every skipped frame
\* (line 319); k counts the acquisition times added.  Where the exact sum
\* t_start + k * num / den is a whole number the double may fall to one side
\* of it, and only there can that decide a comparison with the clock.
\* <<t_start, num, den, k>> is listed in RoundedUp when the double is above
\* the whole number (7 + 7/3.0 + 7/3.0 + 7/3.0 = 14.000000000000002) and in
\* RoundedDown when it is below; recording starts at t0 = 0, so num is
\* t_start; t_start up to 40, k up to 8.
RoundedUp ==
    {<<7, 7, 3, 3>>, <<7, 7, 5, 5>>, <<9, 9, 5, 5>>, <<9, 9, 7, 7>>,
     <<11, 11, 7, 7>>, <<12, 12, 7, 7>>, <<13, 13, 5, 5>>, <<13, 13, 7, 7>>,
     <<14, 14, 3, 3>>, <<14, 14, 5, 5>>, <<15, 15, 9, 3>>, <<15, 15, 9, 6>>,
     <<18, 18, 5, 5>>, <<18, 18, 7, 7>>, <<19, 19, 3, 6>>, <<19, 19, 7, 7>>,
     <<21, 21, 5, 5>>, <<22, 22, 7, 7>>, <<23, 23, 5, 5>>, <<24, 24, 7, 7>>,
     <<25, 25, 3, 3>>, <<26, 26, 5, 5>>, <<26, 26, 7, 7>>, <<28, 28, 3, 3>>,
     <<28, 28, 5, 5>>, <<29, 29, 7, 7>>, <<30, 30, 9, 3>>, <<30, 30, 9, 6>>,
     <<31, 31, 3, 3>>, <<31, 31, 5, 5>>, <<31, 31, 7, 7>>, <<35, 35, 3, 6>>,
     <<36, 36, 5, 5>>, <<36, 36, 7, 7>>, <<38, 38, 3, 6>>, <<38, 38, 7, 7>>,
     <<39, 39, 9, 3>>, <<39, 39, 9, 6>>}
RoundedDown ==
    {<<4, 4, 3, 3>>, <<5, 5, 3, 6>>, <<6, 6, 5, 5>>, <<8, 8, 3, 3>>, <<8, 8, 5, 5>>,
     <<8, 8, 7, 7>>, <<10, 10, 3, 6>>, <<10, 10, 7, 7>>, <<11, 11, 5, 5>>,
     <<12, 12, 5, 5>>, <<12, 12, 9, 6>>, <<13, 13, 3, 3>>, <<15, 15, 7, 7>>,
     <<16, 16, 3, 3>>, <<16, 16, 5, 5>>, <<16, 16, 7, 7>>, <<17, 17, 3, 6>>,
     <<17, 17, 5, 5>>, <<17, 17, 7, 7>>, <<20, 20, 3, 6>>, <<20, 20, 7, 7>>,
     <<21, 21, 9, 3>>, <<22, 22, 5, 5>>, <<23, 23, 7, 7>>, <<24, 24, 5, 5>>,
     <<24, 24, 9, 6>>, <<25, 25, 7, 7>>, <<26, 26, 3, 3>>, <<27, 27, 5, 5>>,
     <<27, 27, 7, 7>>, <<29, 29, 3, 3>>, <<29, 29, 5, 5>>, <<30, 30, 7, 7>>,
     <<32, 32, 3, 3>>, <<32, 32, 5, 5>>, <<32, 32, 7, 7>>, <<33, 33, 9, 3>>,
     <<33, 33, 9, 6>>, <<34, 34, 3, 6>>, <<34, 34, 5, 5>>, <<34, 34, 7, 7>>,
     <<37, 37, 3, 6>>, <<39, 39, 5, 5>>, <<39, 39, 7, 7>>, <<40, 40, 3, 6>>,
     <<40, 40, 7, 7>>}

FloatOff(ts, acq, k) ==
    IF <<ts, acq.num, acq.den, k>> \in RoundedUp THEN 1
    ELSE IF <<ts, acq.num, acq.den, k>> \in RoundedDown THEN -1
    ELSE 0

\* lines 313 and 319: next_interval after k acquisition times were added to
\* t_start: the numerator of the exact sum over acq.den, and the side of it
\* the double is on
NextInterval(ts, acq, k) ==
    [num |-> ts * acq.den + k * acq.num, off |-> FloatOff(ts, acq, k)]

\* line 318: time.time() > next_interval
Later(t, sched, den) ==
    \/ t * den > sched.num
    \/ t * den = sched.num /\ sched.off < 0

\* line 323: time.time() < next_interval
Earlier(t, sched, den) ==
    \/ t * den < sched.num
    \/ t * den = sched.num /\ sched.off > 0

\* lines 318-320: the number of times `while time.time() > next_interval` runs,
\* each run adding acquisition_time to next_interval and one to i.  t is the
\* clock, ts is t_start, acq the fraction acquisition_time.
RECURSIVE SkipFrom(_, _, _, _)
SkipFrom(k, t, ts, acq) ==
    IF Later(t, NextInterval(ts, acq, k + 1), acq.den)
      THEN SkipFrom(k + 1, t, ts, acq)
      ELSE k

\* no frame-skip accounting: a late frame costs one count like any other
SkipCountNone(t, ts, acq) == 0

SkipCount(t, ts, acq) == SkipFrom(0, t, ts, acq)

\* lines 323-324: the clock when `while time.time() < next_interval` ends,
\* sched being next_interval: the first tick that is not before
\* next_interval, or the present when that has passed
RECURSIVE FirstTickAtOrAfter(_, _, _)
FirstTickAtOrAfter(t, sched, den) ==
    IF Earlier(t, sched, den) THEN FirstTickAtOrAfter(t + 1, sched, den) ELSE t

\* no idle wait: the loop goes on at once
WaitUntilNoIdle(t, sched, den) == t

WaitUntil(t, sched, den) == FirstTickAtOrAfter(t, sched, den)

\* line 224: the loop test reads the stop flag
StopRequested == stopEvent

\* lines 224-231 and 334-339: the loop test, and the code up to the capture call
LoopIteration ==
    /\ pc = "loop"
    /\ IF StopRequested
         THEN /\ pc' = "finish"
              /\ UNCHANGED <<t_start, acquisition_time, difffocus, error>>
         ELSE /\ i <= MaxFrames
              /\ IF ~IsTrackingFrame(i)
                   THEN /\ pc' = "diff_capture"
                        /\ UNCHANGED <<t_start, acquisition_time, difffocus, error>>
                   ELSE /\ t_start' = now
                        /\ IF i - 1 = 0
                             THEN /\ Raise("ZeroDivisionError")
                                  /\ UNCHANGED <<acquisition_time, difffocus>>
                             ELSE /\ acquisition_time' = [num |-> now - t0, den |-> i - 1]
                                  /\ IF mode = "auto"
                                       THEN /\ difffocus' = diff_defocus
                                            /\ pc' = "track_capture"
                                            /\ UNCHANGED error
                                       \* diff_focus_defocused is assigned in the
                                       \* auto block only (line 157): line 339 reads
                                       \* an unbound local
                                       ELSE /\ Raise("UnboundLocalError")
                                            /\ UNCHANGED difffocus
    /\ UNCHANGED <<still_vars, resource_vars, camtype, angle_vars, config_vars, stopEvent, calib_beamshift, redo,
                   buf_vars, now, t0, next_interval, features, beam_vars,
                   diff_focus_proper, message, out_vars, hist_vars>>

\* a pre-emptive stop: the frame in flight is dropped once the flag is set
AppendFrameUnlessStopped(buf, n) == IF stopEvent THEN buf ELSE Append(buf, n)

\* a buffer that holds the last frame only
AppendFrameKeepingLast(buf, n) == <<n>>

\* lines 235 and 329: buffer.append((i, img, h)), whatever the stop flag says
AppendFrame(buf, n) == Append(buf, n)

\* lines 327-332 and 359-363: a diffraction frame
DiffCapture ==
    /\ pc = "diff_capture"
    /\ \/ \E d \in MinDiffDur..MaxDiffDur :
            /\ now' = now + d
            /\ buffer' = AppendFrame(buffer, i)
            /\ i' = i + 1
            /\ pc' = "loop"
            /\ UNCHANGED error
       \/ /\ Raise("HardwareError")
          /\ UNCHANGED <<now, buffer, i>>
    /\ UNCHANGED <<still_vars, resource_vars, camtype, angle_vars, config_vars, stopEvent, calib_beamshift, redo,
                   image_buffer, t0, t_start, acquisition_time, next_interval,
                   features, beam_vars, focus_vars, message, out_vars, hist_vars>>

\* the focus left where the tracking capture put it
FocusLeftDefocused == difffocus

\* line 233: self.ctrl.difffocus.value = diff_focus_proper
RestoredFocus == diff_focus_proper

\* lines 232-235 and 271: the tracking image is captured at the defocused
\* setting, the focus restored, the frame appended, the features detected
TrackCapture ==
    /\ pc = "track_capture"
    /\ \/ \E d \in 1..MaxTrackDur, n \in FeatureCounts :
            /\ now' = now + d
            /\ difffocus' = RestoredFocus
            /\ image_buffer' = AppendFrame(image_buffer, i)
            /\ features' = n
            /\ pc' = "track_correct"
            /\ UNCHANGED error
       \/ /\ Raise("HardwareError")
          /\ UNCHANGED <<now, difffocus, image_buffer, features>>
    /\ UNCHANGED <<still_vars, resource_vars, camtype, angle_vars, config_vars, stopEvent, calib_beamshift, redo,
                   i, buffer, t0, t_start, acquisition_time, next_interval,
                   beam_vars, diff_focus_proper, message, out_vars, hist_vars>>

\* the running target left as it was after the command
NewTargetKept(target, delta) == target

\* lines 309-310: bs_x0, bs_y0 = bs_x0 + delta[0], bs_y0 + delta[1]
NewTarget(target, delta) == VecAdd(target, delta)

\* line 306: np.matmul(self.calib_beamshift.transform, cc)
DeltaBeamshift(transform, cc) == MatVec(transform, cc)

\* lines 313-320: the schedule of the next frame and the frame-skip
\* accounting, t being the clock when the correction is done
SkipFrames(t) ==
    LET skip == SkipCount(t, t_start, acquisition_time) IN
    /\ next_interval' = NextInterval(t_start, acquisition_time, skip + 1)
    /\ i' = i + skip
    /\ skipped' = skipped \cup ((i + 1)..(i + skip))
    /\ last_wait' = [i_before |-> i, t_end |-> t, ts |-> t_start,
                     num |-> acquisition_time.num, den |-> acquisition_time.den,
                     skip |-> skip]

\* lines 273-320: the tracking correction, then the frame-skip accounting
TrackCorrect ==
    /\ pc = "track_correct"
    /\ IF ~SingleFeature(features)
         THEN /\ message' = MsgTwoApertures
              /\ pc' = "finish"
              /\ UNCHANGED <<now, beam_vars, error, i, next_interval, skipped, last_wait>>
         ELSE \/ \E cc \in Drifts, p \in 0..MaxProcDelay :
                    IF calib_beamshift = NoCalib
                      THEN /\ Raise("AttributeError")
                           /\ UNCHANGED <<now, beam_vars, message, i, next_interval,
                                          skipped, last_wait>>
                      ELSE LET delta == DeltaBeamshift(calib_beamshift, cc)
                               target == NewTarget(bs0, delta) IN
                           /\ beamshift' = VecAdd(bs0, delta)   \* line 308
                           /\ commands' = commands + 1
                           /\ bs0' = target
                           /\ drift_sum' = VecAdd(drift_sum, delta)
                           /\ now' = now + p
                           /\ SkipFrames(now + p)
                           /\ pc' = "track_wait"
                           /\ UNCHANGED <<bs_init, message, error>>
              \/ /\ calib_beamshift # NoCalib
                 /\ Raise("HardwareError")
                 /\ UNCHANGED <<now, beam_vars, message, i, next_interval, skipped,
                                last_wait>>
    /\ UNCHANGED <<still_vars, resource_vars, camtype, angle_vars, config_vars, stopEvent, calib_beamshift, redo,
                   buffer, image_buffer, t0, t_start, acquisition_time, features,
                   focus_vars, out_vars, stop_set>>

\* lines 323-332: the idle wait, and i += 1
TrackWait ==
    /\ pc = "track_wait"
    /\ now' = WaitUntil(now, next_interval, acquisition_time.den)
    /\ i' = i + 1
    /\ pc' = "loop"
    /\ UNCHANGED <<still_vars, resource_vars, camtype, angle_vars, config_vars, stopEvent, calib_beamshift, redo,
                   buffer, image_buffer, t0, t_start, acquisition_time, next_interval,
                   features, beam_vars, focus_vars, message, error, out_vars, hist_vars>>

\* line 383: nframes = i + 1
NFrames(n) == n + 1

\* lines 365-427: after the loop, the frames go to the format writers
Finish ==
    /\ pc = "finish"
    /\ cam_blocked' = FALSE                  \* line 367
    /\ beamblank' = BlankAgain(beamblank)
    /\ \E rot \in EndRotations :
        /\ endangle' = startangle + rot
        /\ osangle' = [num |-> Abs((startangle + rot) - startangle), den |-> NFrames(i)]
    /\ nframes' = NFrames(i)
    \* line 385: acquisition_time = (t1 - t0) / nframes
    /\ acquisition_time' = [num |-> now - t0, den |-> NFrames(i)]
    /\ handed' = buffer
    /\ tiff_images' = image_buffer
    \* lines 424-425: i, img, h = image_buffer.pop(0) until the buffer is empty
    /\ image_buffer' = <<>>
    /\ i' = IF image_buffer = <<>> THEN i ELSE image_buffer[Len(image_buffer)]
    /\ pc' = "stopped"
    /\ UNCHANGED <<still_vars, camtype, a0, a, startangle, config_vars, stopEvent,
                   calib_beamshift, redo, buffer, now, t0, t_start, next_interval,
                   features, beam_vars, focus_vars, message, error, hist_vars>>

\* ------------------------------------------------------------------ Next

Next ==
    \/ EnableImageInterval
    \/ EnableAutotrack
    \/ SetStop
    \/ StartCollection
    \/ CalibrateImageshift
    \/ LoadCalib
    \/ OnDemandCalib
    \/ RefCapture
    \/ ArmSimulate
    \/ ArmedPoll
    \/ LoopIteration
    \/ DiffCapture
    \/ TrackCapture
    \/ TrackCorrect
    \/ TrackWait
    \/ Finish

Spec == Init /\ [][Next]_vars

\* the steps of the thread that runs start_collection
ControlThread ==
    \/ CalibrateImageshift
    \/ LoadCalib
    \/ OnDemandCalib
    \/ RefCapture
    \/ ArmSimulate
    \/ ArmedPoll
    \/ LoopIteration
    \/ DiffCapture
    \/ TrackCapture
    \/ TrackCorrect
    \/ TrackWait
    \/ Finish

\* start_collection runs in a thread of its own and every call it makes
\* returns: the thread takes its next step whenever it has one.  The caller
\* is free to set the stop flag or not.
SpecFair == Init /\ [][Next]_vars /\ WF_vars(ControlThread)

\* ------------------------------------------- CalibStage, the conversions
\* src/instamatic/calibrate/calibrate_stage_lowmag.py.  Coordinates are
\* integers and the rotation matrices have determinant 1 or -1, so that
\* np.linalg.inv is exact.

Rotations == {<<<<1, 0>>, <<0, 1>>>>, <<<<0, 1>>, <<-1, 0>>>>, <<<<1, 2>>, <<0, 1>>>>,
              <<<<2, 1>>, <<1, 1>>>>, <<<<1, 1>>, <<0, -1>>>>}
Translations == {<<0, 0>>, <<3, -2>>}
ReferencePositions == {<<0, 0>>, <<100, -50>>}
ImagePositions == {<<0, 0>>, <<103, -52>>, <<-20, 40>>}
Points == {<<1024, 1024>>, <<0, 0>>, <<1500, -7>>}

VecSub(u, v) == <<u[1] - v[1], u[2] - v[2]>>

\* np.dot(v, m): the row vector v times the 2x2 matrix m
VecMat(v, m) == <<v[1] * m[1][1] + v[2] * m[2][1], v[1] * m[1][2] + v[2] * m[2][2]>>

Det(m) == m[1][1] * m[2][2] - m[1][2] * m[2][1]

\* np.linalg.inv(r): the adjugate over the determinant
Inv(m) == <<<<m[2][2] \div Det(m), (-m[1][2]) \div Det(m)>>,
            <<(-m[2][1]) \div Det(m), m[1][1] \div Det(m)>>>>

\* _reference_setting_to_pixelcoord, lines 33-60
reference_setting_to_pixelcoord(px_ref, ip, r, t, reference_pos) ==
    LET r_i == Inv(r)
        vect == VecSub(ip, reference_pos)
    IN  VecSub(px_ref, VecMat(VecSub(vect, t), r_i))

\* the translation left out of the offset
pixelcoord_to_reference_setting_untranslated(px, ip, r, t, reference_pos) ==
    LET r_i == Inv(r)
        vect == VecSub(ip, reference_pos)
    IN  VecAdd(VecMat(vect, r_i), px)

\* _pixelcoord_to_reference_setting, lines 62-88
pixelcoord_to_reference_setting(px, ip, r, t, reference_pos) ==
    LET r_i == Inv(r)
        vect == VecSub(ip, reference_pos)
    IN  VecAdd(VecMat(VecSub(vect, t), r_i), px)

\* the matrix applied to a column vector
pixelcoord_to_stagepos_transposed(px, ip, r, t, reference_pos) ==
    LET px_ref == pixelcoord_to_reference_setting(px, ip, r, t, reference_pos)
    IN  VecAdd(VecAdd(MatVec(r, VecSub(px_ref, <<1024, 1024>>)), t), reference_pos)

\* _pixelcoord_to_stagepos, lines 90-109
pixelcoord_to_stagepos(px, ip, r, t, reference_pos) ==
    LET px_ref == pixelcoord_to_reference_setting(px, ip, r, t, reference_pos)
    IN  VecAdd(VecAdd(VecMat(VecSub(px_ref, <<1024, 1024>>), r), t), reference_pos)

\* _stagepos_to_pixelcoord, lines 111-135
stagepos_to_pixelcoord(sp, ip, r, t, reference_pos) ==
    LET r_i == Inv(r)
        px_ref == VecAdd(VecMat(VecSub(VecSub(sp, t), reference_pos), r_i),
                         <<1024, 1024>>)
    IN  reference_setting_to_pixelcoord(px_ref, ip, r, t, reference_pos)

\* CalibStage(rotation, translation, reference_position), and the arguments
\* of the first call
InitCalibStage ==
    /\ NoSession
    /\ NoScan
    /\ NoLib
    /\ rotation \in Rotations
    /\ translation \in Translations
    /\ reference_position \in ReferencePositions
    /\ image_pos \in ImagePositions
    /\ arg \in Points
    /\ applied = <<>>
    /\ val = <<0, 0>>
    /\ back = <<0, 0>>

\* one call of a public conversion: on arg first, then on what came back;
\* of_arg and of_val are what the conversion returns for arg and for val
Convert(name, of_arg, of_val) ==
    /\ Len(applied) < 2
    /\ applied' = Append(applied, name)
    /\ IF applied = <<>>
         THEN val' = of_arg /\ UNCHANGED back
         ELSE back' = of_val /\ UNCHANGED val
    /\ UNCHANGED <<session_vars, scan_vars, lib_vars, rotation, translation,
                   reference_position, image_pos, arg>>

\* lines 137-141
ReferenceSettingToPixelcoord ==
    Convert("reference_setting_to_pixelcoord",
            reference_setting_to_pixelcoord(arg, image_pos, rotation, translation, reference_position),
            reference_setting_to_pixelcoord(val, image_pos, rotation, translation, reference_position))

\* lines 143-147
PixelcoordToReferenceSetting ==
    Convert("pixelcoord_to_reference_setting",
            pixelcoord_to_reference_setting(arg, image_pos, rotation, translation, reference_position),
            pixelcoord_to_reference_setting(val, image_pos, rotation, translation, reference_position))

\* lines 149-153
PixelcoordToStagepos ==
    Convert("pixelcoord_to_stagepos",
            pixelcoord_to_stagepos(arg, image_pos, rotation, translation, reference_position),
            pixelcoord_to_stagepos(val, image_pos, rotation, translation, reference_position))

\* lines 155-159
StageposToPixelcoord ==
    Convert("stagepos_to_pixelcoord",
            stagepos_to_pixelcoord(arg, image_pos, rotation, translation, reference_position),
            stagepos_to_pixelcoord(val, image_pos, rotation, translation, reference_position))

NextCalibStage ==
    \/ ReferenceSettingToPixelcoord
    \/ PixelcoordToReferenceSetting
    \/ PixelcoordToStagepos
    \/ StageposToPixelcoord

SpecCalibStage == InitCalibStage /\ [][NextCalibStage]_vars

\* ------------------------------------------------------ the outlier filter
\* get_outlier_filter of calibrate_stagematrix.py on pixel shifts whose
\* Euclidean norm is an integer.  With x the norms, n their number, S their
\* sum and Q the sum of their squares, stats.zscore gives
\* z[k] = (x[k] - S/n) / sqrt(Q/n - (S/n)^2), so that
\* |z[k]| < threshold  iff  (n*x[k] - S)^2 < threshold^2 * (n*Q - S^2);
\* when all norms are equal z[k] is 0/0, a nan, and every comparison with
\* it is False, as 0 < 0 is.

MaxNorm == 100
MaxSamples == 4

Shifts == {<<0, 0>>, <<3, 4>>, <<6, 8>>, <<0, 10>>}
Thresholds == {1, 2}

\* four samples of norm 0 and one of norm 5: the last has a z-score of 2
FourAndOne == <<<<0, 0>>, <<0, 0>>, <<0, 0>>, <<0, 0>>, <<3, 4>>>>

\* 20 samples of norm 9, 10 or 11, with 2 of norm 100 among them
Injected == {7, 22}
TwentyAndTwo ==
    [k \in 1..22 |->
        IF k = 7 THEN <<60, 80>>
        ELSE IF k = 22 THEN <<100, 0>>
        ELSE IF k % 4 = 0 THEN <<0, 9>>
        ELSE IF k % 4 = 1 THEN <<6, 8>>
        ELSE IF k % 4 = 2 THEN <<0, 11>>
        ELSE <<8, 6>>]

DataSets ==
    UNION {[1..n -> Shifts] : n \in 1..MaxSamples} \cup {FourAndOne, TwentyAndTwo}

\* np.linalg.norm(data, axis=1), line 39
Norm(v) == CHOOSE x \in 0..MaxNorm : x * x = v[1] * v[1] + v[2] * v[2]
Norms(d) == [k \in 1..Len(d) |-> Norm(d[k])]

RECURSIVE Sum(_)
Sum(s) == IF s = <<>> THEN 0 ELSE s[1] + Sum(Tail(s))

Squares(s) == [k \in 1..Len(s) |-> s[k] * s[k]]

\* n times the deviation of x[k] from the mean, and the square of n times
\* the standard deviation (stats.zscore, line 39)
Deviation(x, k) == Len(x) * x[k] - Sum(x)
Spread(x) == Len(x) * Sum(Squares(x)) - Sum(x) * Sum(x)

\* abs(zscore) <= threshold
Inlier_inclusive(x, k, t) ==
    /\ Spread(x) > 0
    /\ Deviation(x, k) * Deviation(x, k) <= t * t * Spread(x)

\* abs(zscore) < threshold, line 40
Inlier(x, k, t) ==
    /\ Spread(x) > 0
    /\ Deviation(x, k) * Deviation(x, k) < t * t * Spread(x)

\* lines 33-45
get_outlier_filter(d, t) == [k \in 1..Len(d) |-> Inlier(Norms(d), k, t)]

\* array[sel]: the entries of s the boolean array b selects
RECURSIVE Select(_, _)
Select(s, b) ==
    IF s = <<>> THEN <<>>
    ELSE IF b[1] THEN <<s[1]>> \o Select(Tail(s), Tail(b))
    ELSE Select(Tail(s), Tail(b))

\* get_outlier_filter(translations), lines 39-45 (line 129 with the default
\* threshold)
GetOutlierFilter ==
    /\ filter_pc = "called"
    /\ filter_pc' = "filtered"
    /\ sel' = get_outlier_filter(data, threshold)
    /\ n_filtered' = IF \A k \in 1..Len(data) : sel'[k]
                       THEN -1
                       ELSE Len(data) - Len(Select(data, sel'))
    /\ UNCHANGED <<session_vars, xf_vars, scan_vars, file_vars, em_vars, crop_vars, data, threshold,
                   translations, shifts_all, shifts_sel>>

\* as many stage shifts as sel keeps, taken from the front
SelectShifts_leading(s, b) == SubSeq(s, 1, Len(Select(s, b)))

\* np.array(stage_shifts)[sel], line 130
SelectShifts(s, b) == Select(s, b)

\* lines 130-131: stage_shifts = np.array(stage_shifts)[sel],
\* translations = np.array(translations)[sel]
SelectInliers ==
    /\ filter_pc = "filtered"
    /\ filter_pc' = "selected"
    /\ shifts_sel' = SelectShifts(shifts_all, sel)
    /\ translations' = Select(data, sel)
    /\ UNCHANGED <<session_vars, xf_vars, scan_vars, file_vars, em_vars, crop_vars, data, threshold,
                   sel, n_filtered, shifts_all>>

\* the stage shifts of n samples (lines 97-110): one step to each sample, or
\* the steps of two runs
StageShiftsOf(n) ==
    {[k \in 1..n |-> <<10 * k, -k>>],
     [k \in 1..n |-> IF 2 * k <= n THEN <<10, 0>> ELSE <<0, 10>>]}

InitFilter ==
    /\ NoSession
    /\ NoTransform
    /\ NoScan
    /\ NoPersistence
    /\ NoEMMenu
    /\ NoCrop
    /\ filter_pc = "called"
    /\ data \in DataSets
    /\ threshold \in Thresholds
    /\ sel = <<>>
    /\ n_filtered = -1
    /\ translations = <<>>
    /\ shifts_all \in StageShiftsOf(Len(data))
    /\ shifts_sel = <<>>

NextFilter ==
    \/ GetOutlierFilter
    \/ SelectInliers

SpecFilter == InitFilter /\ [][NextFilter]_vars

\* ----------------------------------------------- the calibration routines
\* Positions are integers.  An image is reduced to the place it was taken
\* at; the stage and the deflector go exactly where they are sent.

StagePositions == {<<0, 0>>, <<100, -40>>}
ImageShiftValues == {<<0, 0>>, <<300, -200>>}
Gridsizes == 1..4
Stepsizes == {50}
StepArgs == {<<<<3, <<10, 0>>>>, <<3, <<0, 10>>>>>>,
             <<<<2, <<5, -5>>>>>>,
             <<<<1, <<10, 0>>>>, <<4, <<-10, 0>>>>>>}
Directories == {"None", "stagematrix_mag1"}
Pixelsizes == {0, 1, 2, 5}
CalibModes == {"lowmag", "mag1"}
Magnifications == {100, 2500}
MagRanges == {[lowmag |-> <<>>, mag1 |-> <<>>],
              [lowmag |-> <<100, 200>>, mag1 |-> <<2500>>],
              [lowmag |-> <<>>, mag1 |-> <<2500>>]}
\* config.camera.dimensions
Shapes == {<<4, 8>>}
\* overlap, as a fraction
Overlaps == {[num |-> 1, den |-> 2]}
StageLengths == {40}
MinNSteps == {2, 3}
MaxNSteps == {4}

Min(x, y) == IF x < y THEN x ELSE y

\* lines 240-245 of calibrate_stage_lowmag.py: n = (gridsize - 1) / 2 in
\* Python 2, the mesh of np.arange(-n, n+1) * stepsize, flattened row by row
GridOffsets(g, s) ==
    LET n == (g - 1) \div 2
        m == 2 * n + 1
    IN  [k \in 1..(m * m) |-> <<(((k - 1) % m) - n) * s, (((k - 1) \div m) - n) * s>>]

\* calibrate_stage_lowmag_live, lines 205-244: backlash reset, center image,
\* the center read from its header
CalibrateStageLowmagLive ==
    /\ scan_pc = "idle"
    /\ routine' = "calibrate_stage_lowmag_live"
    /\ \E g \in Gridsizes, s \in Stepsizes : gridsize' = g /\ stepsize' = s
    /\ called_at' = stage
    /\ log' = log \o <<Call("reset_xy", stage), Call("getImage", stage)>>
    /\ start' = stage
    /\ scan_i' = 0
    /\ scan_pc' = "grid"
    /\ UNCHANGED <<session_vars, xf_vars, lib_vars, stage, imageshift, ctrl_mode, magnification,
                   args, drc, pixelsize, scan_j, stagepos, pairs, stage_shifts,
                   mag_ranges, cfg, work_subdirs, scan_error>>

\* images of the grid scan: number 0 is the center image img_cent of line
\* 229, number k the image taken at the k-th grid point (line 254)
CenterImage == <<0, 0>>
GridImage(k) == <<k, 0>>

\* lines 245-264: one grid point; line 258 correlates img_cent with img
GridPoint ==
    /\ scan_pc = "grid"
    /\ scan_i < Len(GridOffsets(gridsize, stepsize))
    /\ LET target == VecAdd(start, GridOffsets(gridsize, stepsize)[scan_i + 1]) IN
        /\ stage' = target
        /\ \/ /\ log' = log \o <<Call("set", target), Call("getImage", target)>>
              /\ stagepos' = Append(stagepos, target)
              /\ pairs' = Append(pairs, <<CenterImage, GridImage(scan_i + 1)>>)
              /\ scan_i' = scan_i + 1
              /\ UNCHANGED <<scan_pc, scan_error>>
           \/ /\ log' = Append(log, Call("set", target))
              /\ ScanRaise("HardwareError")
              /\ UNCHANGED <<stagepos, pairs, scan_i>>
    /\ UNCHANGED <<session_vars, xf_vars, lib_vars, routine, imageshift, ctrl_mode, magnification,
                   start, gridsize, stepsize, args, drc, pixelsize, scan_j,
                   stage_shifts, mag_ranges, cfg, work_subdirs, called_at>>

\* the center set, backlash left as the move made it
RestoreCommandsNoReset(p) == <<Call("set", p)>>

\* lines 267-268: ctrl.stageposition.set(x=x_cent, y=y_cent), reset_xy()
RestoreCommands(p) == <<Call("set", p), Call("reset_xy", p)>>

\* lines 266-286: back to the center, backlash reset, the positions made
\* relative to the center, the closing image when save_images is set, and
\* CalibStage.from_data (lines 162-170): rotation and translation are what
\* fit_affine_transformation makes of the measured shifts, the reference
\* position is xy_cent
GridFinish ==
    /\ scan_pc = "grid"
    /\ scan_i = Len(GridOffsets(gridsize, stepsize))
    /\ stage' = start
    /\ \E save_images \in BOOLEAN :
        log' = log \o RestoreCommands(start)
                   \o (IF save_images THEN <<Call("getImage", start)>> ELSE <<>>)
    /\ stagepos' = [k \in 1..Len(stagepos) |-> VecSub(stagepos[k], start)]
    /\ rotation' \in Rotations
    /\ translation' \in Translations
    /\ reference_position' = start
    /\ has_data' = TRUE                      \* from_data, line 168
    /\ scan_pc' = "done"
    /\ UNCHANGED <<session_vars, filter_vars, em_vars, crop_vars, file_pc, fn, fs, loaded,
                   file_error, persisted, image_pos, arg, applied, val, back, routine, imageshift, ctrl_mode, magnification,
                   start, gridsize, stepsize, args, drc, pixelsize, scan_i, scan_j,
                   pairs, stage_shifts, mag_ranges, cfg, work_subdirs, scan_error, called_at>>

\* Calibrate_Imageshift of experiment.py called on its own
ImageshiftStart == ImageshiftStartStep /\ UNCHANGED session_vars
ImageshiftSet == ImageshiftSetStep /\ UNCHANGED session_vars
ImageshiftImage == ImageshiftImageStep /\ UNCHANGED session_vars
ImageshiftFinish == ImageshiftFinishStep /\ UNCHANGED session_vars

\* the sentinel 1.0 let through
InvalidPixelsizeZeroOnly(ps) == ps = 0

\* calibrate_stagematrix.py line 226: pixelsize == 1.0 or pixelsize == 0.0
InvalidPixelsize(ps) == ps = 1 \/ ps = 0

\* lines 232-240: the number of steps along one axis
NStep(step, stage_length, min_n_step, max_n_step) ==
    IF step * min_n_step > stage_length
      THEN min_n_step
      ELSE Min(stage_length \div step, max_n_step)

\* lines 229-230: displacement * (1 - overlap)
StepLength(dim, ps, overlap) == (dim * ps * (overlap.den - overlap.num)) \div overlap.den

\* calibrate_stage, lines 216-252: mode and magnification set when both are
\* given, the pixel size looked up and checked, the two runs made up
CalibrateStage ==
    /\ scan_pc = "idle"
    /\ routine' = "calibrate_stage"
    /\ \/ \E m \in CalibModes, mg \in Magnifications :
            ctrl_mode' = m /\ magnification' = mg
       \/ UNCHANGED <<ctrl_mode, magnification>>
    /\ \E ps \in Pixelsizes, shape \in Shapes, overlap \in Overlaps,
          stage_length \in StageLengths, min_n_step \in MinNSteps,
          max_n_step \in MaxNSteps, d \in Directories :
        /\ pixelsize' = ps
        /\ IF InvalidPixelsize(ps)
             THEN /\ ScanRaise("ValueError")
                  /\ UNCHANGED <<args, drc>>
             ELSE LET x_step == StepLength(shape[1], ps, overlap)
                      y_step == StepLength(shape[2], ps, overlap)
                      n_x_step == NStep(x_step, stage_length, min_n_step, max_n_step)
                      n_y_step == NStep(y_step, stage_length, min_n_step, max_n_step)
                  IN  /\ args' = <<<<n_x_step, <<x_step, 0>>>>, <<n_y_step, <<0, y_step>>>>>>
                      /\ drc' = d
                      /\ scan_pc' = "called"
                      /\ UNCHANGED scan_error
    /\ called_at' = stage
    /\ UNCHANGED <<session_vars, xf_vars, lib_vars, stage, imageshift, start, gridsize, stepsize,
                   scan_i, scan_j, stagepos, pairs, stage_shifts, mag_ranges, cfg,
                   work_subdirs, log>>

\* calibrate_stage_from_stagepos called with runs of the caller's own
CalibrateStageFromStagepos ==
    /\ scan_pc = "idle"
    /\ routine' = "calibrate_stage_from_stagepos"
    /\ \E runs \in StepArgs, d \in Directories : args' = runs /\ drc' = d
    /\ scan_pc' = "called"
    /\ UNCHANGED <<session_vars, xf_vars, lib_vars, stage, imageshift, ctrl_mode, magnification,
                   start, gridsize, stepsize, pixelsize, scan_i, scan_j, stagepos,
                   pairs, stage_shifts, mag_ranges, cfg, work_subdirs, scan_error, called_at, log>>

\* calibrate_stage_from_stagepos, lines 83-95: the stage position read
StepStart ==
    /\ scan_pc = "called"
    /\ start' = stage
    /\ called_at' = stage
    /\ scan_i' = 0
    /\ scan_pc' = "baseline"
    /\ UNCHANGED <<session_vars, xf_vars, lib_vars, routine, stage, imageshift, ctrl_mode,
                   magnification, gridsize, stepsize, args, drc, pixelsize, scan_j,
                   stagepos, pairs, stage_shifts, mag_ranges, cfg, work_subdirs, scan_error, log>>

\* lines 98-100: the first image of run i.  With write = False (line 18)
\* getImage reads drc / '0_{i}.tiff' and makes no call on ctrl: a TypeError
\* when drc is None, an error of read_tiff when the file is not there
StepBaseline ==
    /\ scan_pc = "baseline"
    /\ IF drc = "None"
         THEN /\ ScanRaise("TypeError")
              /\ UNCHANGED scan_j
         ELSE \/ /\ scan_j' = 1
                 /\ scan_pc' = "steps"
                 /\ UNCHANGED scan_error
              \/ /\ ScanRaise("FileNotFoundError")
                 /\ UNCHANGED scan_j
    /\ UNCHANGED <<session_vars, xf_vars, lib_vars, routine, stage, imageshift, ctrl_mode,
                   magnification, start, gridsize, stepsize, args, drc, pixelsize,
                   scan_i, stagepos, pairs, stage_shifts, mag_ranges, cfg, work_subdirs,
                   called_at, log>>

\* the step taken from the scan's starting position
StepTargetFromStart(step) == VecAdd(start, step)

\* lines 103-104: current_stage_pos.x + dx, current_stage_pos.y + dy, with
\* current_stage_pos the stage itself
StepTarget(step) == VecAdd(stage, step)

\* every image of run i paired with the run's first image
Pair_with_first(j, run) == <<<<0, run>>, <<j, run>>>>

\* line 109: pairs.append((last_img, img)), last_img being the image of
\* line 98 or of line 115, img that of line 107; an image is its <<j, i>>
Pair(j, run) == <<<<j - 1, run>>, <<j, run>>>>

\* lines 102-116: one step of run i; the image is read from drc / '{j}_{i}.tiff'
StepMove ==
    /\ scan_pc = "steps"
    /\ scan_j < args[scan_i + 1][1]
    /\ LET step == args[scan_i + 1][2]
           target == StepTarget(step)
       IN  /\ stage' = target
           /\ log' = Append(log, Call("set_xy_with_backlash_correction", target))
           /\ \/ /\ pairs' = Append(pairs, Pair(scan_j, scan_i))
                 /\ stage_shifts' = Append(stage_shifts, step)
                 /\ scan_j' = scan_j + 1
                 /\ UNCHANGED <<scan_pc, scan_error>>
              \/ /\ ScanRaise("FileNotFoundError")
                 /\ UNCHANGED <<pairs, stage_shifts, scan_j>>
    /\ UNCHANGED <<session_vars, xf_vars, lib_vars, routine, imageshift, ctrl_mode, magnification,
                   start, gridsize, stepsize, args, drc, pixelsize, scan_i, stagepos,
                   mag_ranges, cfg, work_subdirs, called_at>>

\* the stage left where the run ended
ReturnPositionStay == stage

\* line 119: ctrl.stage.xy = (stage_x, stage_y)
ReturnPosition == start

\* lines 102 and 119: run i is through, the stage goes back to where the scan began
StepReturn ==
    /\ scan_pc = "steps"
    /\ scan_j >= args[scan_i + 1][1]
    /\ stage' = ReturnPosition
    /\ log' = Append(log, Call("stage.xy", ReturnPosition))
    /\ scan_i' = scan_i + 1
    /\ scan_pc' = IF scan_i + 1 < Len(args) THEN "baseline" ELSE "fit"
    /\ UNCHANGED <<session_vars, xf_vars, lib_vars, routine, imageshift, ctrl_mode, magnification,
                   start, gridsize, stepsize, args, drc, pixelsize, scan_j, stagepos,
                   pairs, stage_shifts, mag_ranges, cfg, work_subdirs, scan_error, called_at>>

\* lines 121-166: the cross correlation gives one pixel shift for each
\* pair (lines 122-126), get_outlier_filter is called on them with its
\* default threshold (line 129), stage_shifts and translations are rebound to
\* the samples it keeps (lines 130-131) and the fit is made on these
StepFit ==
    /\ scan_pc = "fit"
    /\ \E d \in [1..Len(pairs) -> Shifts] :
        /\ data' = d
        /\ sel' = get_outlier_filter(d, threshold)
        /\ n_filtered' = IF \A k \in 1..Len(d) : sel'[k]
                           THEN -1
                           ELSE Len(d) - Len(Select(d, sel'))
        /\ shifts_all' = stage_shifts
        /\ stage_shifts' = SelectShifts(stage_shifts, sel')
        /\ shifts_sel' = stage_shifts'
        /\ translations' = Select(d, sel')
    /\ filter_pc' = "selected"
    /\ scan_pc' = "done"
    /\ UNCHANGED <<session_vars, xf_vars, file_vars, em_vars, crop_vars, threshold,
                   routine, stage, imageshift, ctrl_mode,
                   magnification, start, gridsize, stepsize, args, drc, pixelsize,
                   scan_i, scan_j, stagepos, pairs, mag_ranges, cfg, work_subdirs,
                   scan_error, called_at, log>>

\* calibrate_stage_all, lines 293-334.  The first magnification met reads
\* drcs (line 310), a name that nothing in the module binds: the NameError is
\* no KeyError and leaves the routine.  Lines 315-329 are never reached.
CalibrateStageAll ==
    /\ scan_pc = "idle"
    /\ routine' = "calibrate_stage_all"
    /\ cfg' = NoCfg
    /\ called_at' = stage
    /\ \E ranges \in MagRanges, save \in BOOLEAN :
        /\ mag_ranges' = ranges
        /\ IF ranges.lowmag = <<>> /\ ranges.mag1 = <<>>
             THEN /\ scan_pc' = "done"
                  /\ UNCHANGED <<work_subdirs, scan_error>>
             ELSE /\ work_subdirs' = IF save THEN work_subdirs + 1 ELSE work_subdirs
                  /\ ScanRaise("NameError")
    /\ UNCHANGED <<session_vars, xf_vars, lib_vars, stage, imageshift, ctrl_mode, magnification,
                   start, gridsize, stepsize, args, drc, pixelsize, scan_i, scan_j,
                   stagepos, pairs, stage_shifts, log>>

InitScan ==
    /\ NoSession
    /\ NoTransform
    /\ NoLib
    /\ ScanLocals
    /\ stage \in StagePositions
    /\ imageshift \in ImageShiftValues
    /\ ctrl_mode \in CalibModes
    /\ magnification \in Magnifications

NextScan ==
    \/ CalibrateStageLowmagLive
    \/ GridPoint
    \/ GridFinish
    \/ ImageshiftStart
    \/ ImageshiftSet
    \/ ImageshiftImage
    \/ ImageshiftFinish
    \/ CalibrateStage
    \/ CalibrateStageFromStagepos
    \/ StepStart
    \/ StepBaseline
    \/ StepMove
    \/ StepReturn
    \/ StepFit
    \/ CalibrateStageAll

SpecScan == InitScan /\ [][NextScan]_vars

\* ------------------------------------------- CalibStage, to_file/from_file
\* pickle writes the object's class and attributes one after the other and
\* reads them back in the same order; a file cut short ends before the last
\* of them.

FileNames == {"calib_stage_lowmag.pickle", "work/calib.pickle"}

CalibStageObject(r, t, p, d) ==
    [rotation |-> r, translation |-> t, reference_position |-> p, has_data |-> d]

\* pickle.dump(self, ...), line 182
Dump(c) ==
    <<"CalibStage", c.rotation[1][1], c.rotation[1][2], c.rotation[2][1],
      c.rotation[2][2], c.translation[1], c.translation[2],
      c.reference_position[1], c.reference_position[2], c.has_data>>

\* the object read back with its reference position left at the default of
\* the constructor
Load_default_reference(b) ==
    CalibStageObject(<<<<b[2], b[3]>>, <<b[4], b[5]>>>>, <<b[6], b[7]>>, <<0, 0>>, b[10])

\* pickle.load(...), line 176, of a complete dump
Load(b) ==
    CalibStageObject(<<<<b[2], b[3]>>, <<b[4], b[5]>>>>, <<b[6], b[7]>>, <<b[8], b[9]>>, b[10])

BlobLen == 10

\* "{}: {}. Please run {} first.".format(e.strerror, fn, prog), line 179
Message(strerror, f, prog) == <<strerror, ": ", f, ". Please run ", prog, " first.">>

\* e.strerror of the IOError of open(fn, ...): errno 2 where the file or its
\* directory does not exist, errno 13 where access is refused
Strerror(state) ==
    IF state \in {"absent", "nodir"} THEN "No such file or directory"
                                     ELSE "Permission denied"

\* the objects found persisted when the program starts
StoredObjects ==
    {CalibStageObject(r, t, p, TRUE) :
        r \in {<<<<0, 1>>, <<-1, 0>>>>, <<<<2, 1>>, <<1, 1>>>>},
        t \in {<<3, -2>>}, p \in ReferencePositions}

\* the file fn when the program starts
InitialFiles ==
    {[state |-> "absent", blob |-> <<>>], [state |-> "denied", blob |-> <<>>],
     [state |-> "nodir", blob |-> <<>>]}
      \cup {[state |-> "file", blob |-> Dump(c)] : c \in StoredObjects}
      \cup {[state |-> "file", blob |-> SubSeq(Dump(c), 1, BlobLen - 1)] :
                c \in StoredObjects}

\* to_file, lines 181-182: open(fn, "w") and pickle.dump.  The name pickle
\* is bound at module level only if one of the star imports of lines 13-17
\* binds it; where none does, line 182 raises NameError before open is
\* called.  open(fn, "w") creates or truncates the file of an existing
\* directory and raises IOError where the directory does not exist or access
\* is refused.
ToFile ==
    /\ file_pc = "ready"
    /\ loaded = NoObject
    /\ \/ /\ fs.state \in {"absent", "file"}
          /\ fs' = [state |-> "file",
                    blob |-> Dump(CalibStageObject(rotation, translation,
                                                   reference_position, has_data))]
          /\ persisted' = CalibStageObject(rotation, translation,
                                           reference_position, has_data)
          /\ UNCHANGED <<file_pc, file_error>>
       \/ /\ fs.state \in {"denied", "nodir"}
          /\ file_pc' = "save_raised"
          /\ file_error' = [type |-> "IOError", message |-> <<Strerror(fs.state), fn>>]
          /\ UNCHANGED <<fs, persisted>>
       \/ /\ file_pc' = "save_raised"
          /\ file_error' = [type |-> "NameError", message |-> <<"pickle">>]
          /\ UNCHANGED <<fs, persisted>>
    /\ UNCHANGED <<session_vars, xf_vars, scan_vars, filter_vars, em_vars, crop_vars, has_data, fn,
                   loaded>>

\* from_file, lines 172-179
FromFile ==
    /\ file_pc = "ready"
    /\ IF fs.state = "file"
         THEN IF Len(fs.blob) = BlobLen
                THEN /\ loaded' = Load(fs.blob)
                     /\ file_pc' = "returned"
                     /\ UNCHANGED file_error
                ELSE /\ file_error' = [type |-> "EOFError", message |-> <<>>]
                     /\ file_pc' = "raised"
                     /\ UNCHANGED loaded
         ELSE /\ file_error' =
                    [type |-> "IOError",
                     message |-> Message(Strerror(fs.state), fn,
                                         "instamatic.calibrate_stage_lowmag")]
              /\ file_pc' = "raised"
              /\ UNCHANGED loaded
    /\ UNCHANGED <<session_vars, xf_vars, scan_vars, filter_vars, em_vars, crop_vars, has_data, fn,
                   fs, persisted>>

InitFile ==
    /\ NoSession
    /\ NoScan
    /\ NoFilter
    /\ NoEMMenu
    /\ NoCrop
    /\ rotation \in Rotations
    /\ translation \in Translations
    /\ reference_position \in ReferencePositions
    /\ image_pos = <<0, 0>>
    /\ arg = <<0, 0>>
    /\ applied = <<>>
    /\ val = <<0, 0>>
    /\ back = <<0, 0>>
    /\ file_pc = "ready"
    /\ has_data \in BOOLEAN
    /\ fn \in FileNames
    /\ fs \in InitialFiles
    /\ loaded = NoObject
    /\ file_error = NoError
    /\ persisted = IF fs.state = "file" /\ Len(fs.blob) = BlobLen
                     THEN CHOOSE c \in StoredObjects : Dump(c) = fs.blob
                     ELSE NoObject

NextFile ==
    \/ ToFile
    \/ FromFile

SpecFile == InitFile /\ [][NextFile]_vars

\* ------------------------------------------------------------ EMMenuWrapper
\* The desktop is the active window and the place of the mouse pointer.  The
\* user activates windows and moves the mouse between the wrapper's calls.

MaxSwitches == 2

Windows == {"EMMENU4", "terminal", "browser"}
PointerPositions == {<<5, 5>>, <<300, 200>>}
\* self.acquire_button_pos, self.record_button_pos, self.liveview_button_pos
Buttons == [acquire |-> <<40, 10>>, record |-> <<20, 10>>, liveview |-> <<30, 10>>]

\* activate, lines 129-134, that leaves self.win_previous as it was
activate_keeping_previous(act, prev) == prev

\* activate, lines 129-134: the value of self.win_previous after it; the
\* active window after it is EMMENU4
activate(act, prev) == IF act # "EMMENU4" THEN act ELSE prev

\* activate_previous, lines 136-139: the active window after it
activate_previous(act, prev) == IF prev # "None" THEN prev ELSE act

\* _press(button_loc), lines 141-152
Press(button) ==
    LET switch_back == win_active # "EMMENU4"
        current_loc == pointer
        prev == IF switch_back THEN activate(win_active, win_previous)
                ELSE win_previous
        after == IF switch_back THEN activate_previous("EMMENU4", prev)
                 ELSE win_active
    IN  /\ win_previous' = prev
        /\ pointer' = current_loc
        /\ win_active' = after
        /\ last_press' =
               [button |-> button, focus |-> focus, clicked_at |-> Buttons[button],
                clicked_in |-> "EMMENU4", active_before |-> win_active,
                active_after |-> win_active', pointer_before |-> pointer,
                pointer_after |-> pointer']
        /\ switches' = IF focus = "open" /\ switch_back /\ after # "EMMENU4"
                         THEN Append(switches, "press")
                         ELSE switches
        /\ Len(switches') <= MaxSwitches
        /\ UNCHANGED <<session_vars, xf_vars, scan_vars, filter_vars, file_vars, crop_vars,
                       self_switch_back, focus, was_active, last_look>>

\* acquire, lines 93-98
Acquire == Press("acquire")

\* toggle_record, lines 154-156 (start_record, lines 100-102)
ToggleRecord == Press("record")

\* toggle_liveview, lines 158-160 (stop_record, lines 104-106)
ToggleLiveview == Press("liveview")

\* lines 111 and 120, lines 58 and 87: self.activate(), a look at the
\* screen, self.activate_previous()
Look(by) ==
    /\ win_previous' = activate(win_active, win_previous)
    /\ win_active' = activate_previous("EMMENU4", win_previous')
    /\ last_look' = [by |-> by, active_before |-> win_active,
                     active_after |-> win_active', raised |-> FALSE]
    /\ switches' = IF win_active' # "EMMENU4" /\ focus = "open"
                     THEN Append(switches, by)
                     ELSE switches
    /\ Len(switches') <= MaxSwitches
    /\ UNCHANGED <<session_vars, xf_vars, scan_vars, filter_vars, file_vars, crop_vars, pointer,
                   self_switch_back, focus, was_active, last_press>>

\* live_view_is_running, lines 108-122
LiveViewIsRunning == Look("live_view_is_running")

\* locate_buttons, lines 56-87, with every button found on the screen
LocateButtons == Look("locate_buttons")

\* locate_buttons, lines 58-80: a button is not found on the screen,
\* EMMenuError is raised before line 87 is reached
LocateButtonsFails ==
    /\ win_previous' = activate(win_active, win_previous)
    /\ win_active' = "EMMENU4"
    /\ last_look' = [by |-> "locate_buttons", active_before |-> win_active,
                     active_after |-> win_active', raised |-> TRUE]
    /\ UNCHANGED <<session_vars, xf_vars, scan_vars, filter_vars, file_vars, crop_vars, pointer,
                   self_switch_back, focus, was_active, last_press, switches>>

\* keep_in_focus up to its yield, lines 162-167
EnterKeepInFocus ==
    /\ focus = "closed"
    /\ was_active' = (win_active = "EMMENU4")
    /\ self_switch_back' = FALSE
    /\ focus' = "open"
    /\ switches' = <<>>
    /\ UNCHANGED <<session_vars, xf_vars, scan_vars, filter_vars, file_vars, crop_vars,
                   win_active, win_previous, pointer, last_press, last_look>>

\* keep_in_focus after its yield, lines 168-170
ExitKeepInFocus ==
    /\ focus = "open"
    /\ self_switch_back' = TRUE
    /\ focus' = "closed"
    /\ IF ~was_active
         THEN /\ win_active' = activate_previous(win_active, win_previous)
              /\ switches' = IF win_active' # win_active
                               THEN Append(switches, "exit")
                               ELSE switches
         ELSE UNCHANGED <<win_active, switches>>
    /\ UNCHANGED <<session_vars, xf_vars, scan_vars, filter_vars, file_vars, crop_vars,
                   win_previous, pointer, was_active, last_press, last_look>>

\* keep_in_focus left by an exception raised in the block of the with
\* statement (EMMenuError of locate_buttons, or any other): the generator is
\* closed at its yield, line 167, and lines 168-170 are not run
ExitKeepInFocusRaised ==
    /\ focus = "open"
    /\ focus' = "closed"
    /\ UNCHANGED <<session_vars, xf_vars, scan_vars, filter_vars, file_vars, crop_vars,
                   win_active, win_previous, pointer, self_switch_back, was_active,
                   last_press, last_look, switches>>

\* activate called on its own, lines 129-134
Activate ==
    /\ win_previous' = activate(win_active, win_previous)
    /\ win_active' = "EMMENU4"
    /\ win_active' # win_active \/ win_previous' # win_previous
    /\ UNCHANGED <<session_vars, xf_vars, scan_vars, filter_vars, file_vars, crop_vars,
                   pointer, self_switch_back, focus, was_active, last_press, last_look,
                   switches>>

\* activate_previous called on its own, lines 136-139
ActivatePrevious ==
    /\ win_active' = activate_previous(win_active, win_previous)
    /\ win_active' # win_active
    /\ UNCHANGED <<session_vars, xf_vars, scan_vars, filter_vars, file_vars, crop_vars,
                   win_previous, pointer, self_switch_back, focus, was_active,
                   last_press, last_look, switches>>

\* the user activates another window, between two calls of the wrapper,
\* inside the block of keep_in_focus or outside it
UserActivates ==
    /\ \E w \in Windows \ {win_active} : win_active' = w
    /\ UNCHANGED <<session_vars, xf_vars, scan_vars, filter_vars, file_vars, crop_vars,
                   win_previous, pointer, self_switch_back, focus, was_active,
                   last_press, last_look, switches>>

\* the user moves the mouse
UserMovesPointer ==
    /\ \E q \in PointerPositions \ {pointer} : pointer' = q
    /\ UNCHANGED <<session_vars, xf_vars, scan_vars, filter_vars, file_vars, crop_vars,
                   win_active, win_previous, self_switch_back, focus, was_active,
                   last_press, last_look, switches>>

\* after __init__, lines 17-46: locate_buttons (lines 56-87) has activated
\* EMMENU4 and gone back to the window that was active
InitEMMenu ==
    /\ NoSession
    /\ NoTransform
    /\ NoScan
    /\ NoFilter
    /\ NoPersistence
    /\ NoCrop
    /\ win_active \in Windows
    /\ win_previous = activate(win_active, "None")
    /\ pointer \in PointerPositions
    /\ self_switch_back = TRUE
    /\ focus = "closed"
    /\ was_active = FALSE
    /\ last_press = NoPress
    /\ last_look = NoLook
    /\ switches = <<>>

NextEMMenu ==
    \/ Acquire
    \/ ToggleRecord
    \/ ToggleLiveview
    \/ LiveViewIsRunning
    \/ LocateButtons
    \/ LocateButtonsFails
    \/ EnterKeepInFocus
    \/ ExitKeepInFocus
    \/ ExitKeepInFocusRaised
    \/ Activate
    \/ ActivatePrevious
    \/ UserActivates
    \/ UserMovesPointer

SpecEMMenu == InitEMMenu /\ [][NextEMMenu]_vars

\* ---------------------------------------------------------------- the crops
\* An image is reduced to its shape, a crop to the shape of the slice taken.

MaxCropped == 2

ImageShapes == {<<64, 64>>}
BoxHeights == {24, 25, 30, 34}
BoxWidths == {24, 40}
BoxCorners == {0, 20}
\* prop.bbox of a feature that find_holes(area = 500) reports
Boxes ==
    {<<y1, x1, y1 + h, x1 + w>> :
        y1 \in BoxCorners, x1 \in BoxCorners, h \in BoxHeights, w \in BoxWidths}
\* prop.weighted_centroid, doubled: the middle of the box, or half a pixel off
CentroidsOf(b) ==
    {<<b[1] + b[3] + e, b[2] + b[4]>> : e \in {0, 1}}
\* find_holes(..., area = 500): the least area of a feature
MinArea == 500
\* the doubled centroid of the feature of a tracking image: a feature of
\* MinArea pixels or more fits around it inside the image
TrackCoordinates == {10, 15, 27, 33, 64, 101, 118}
Reach(c, n) == (IF c < 2 * n - c THEN c ELSE 2 * n - c) + 1
TrackCentroids(shp) ==
    {c \in TrackCoordinates \X TrackCoordinates :
        Reach(c[1], shp[1]) * Reach(c[2], shp[2]) >= MinArea}

\* int(x) for x = num / den, den > 0: towards zero
int(num, den) == IF num >= 0 THEN num \div den ELSE -((-num) \div den)

\* int(d_SA / 1.414), line 181, without lines 182-183
WindowSize_truncated(d_SA) == int(d_SA * 1000, 1414)

\* lines 181-183: int(d_SA / 1.414), made even
WindowSize(d_SA) ==
    LET w == int(d_SA * 1000, 1414)
    IN  IF w % 2 = 1 THEN w + 1 ELSE w

\* the number of entries of seq[a:b] for a sequence of n entries
SliceLen(from, to, n) ==
    LET clip(x) == IF x < 0 THEN (IF x + n < 0 THEN 0 ELSE x + n)
                   ELSE IF x > n THEN n ELSE x
    IN  IF clip(to) > clip(from) THEN clip(to) - clip(from) ELSE 0

\* lines 185-189 and 281-285: a1, b1, a2, b2 and the shape of img[a1:b1, a2:b2];
\* pos is the doubled centroid, window_size / 2 a division of integers
Crop(pos, w, shp) ==
    LET a1 == int(pos[1] - 2 * (w \div 2), 2)
        b1 == int(pos[1] + 2 * (w \div 2), 2)
        a2 == int(pos[2] - 2 * (w \div 2), 2)
        b2 == int(pos[2] + 2 * (w \div 2), 2)
    IN  <<SliceLen(a1, b1, shp[1]), SliceLen(a2, b2, shp[2])>>

\* lines 172-190: exactly one feature in img0, the window and the reference crop
ReferenceCrop ==
    /\ crop_pc = "setup"
    /\ \E b \in Boxes : \E c \in CentroidsOf(b) :
        /\ bbox' = b
        /\ crystal_pos' = c
        /\ window_size' = WindowSize(b[3] - b[1])
        /\ img0_cropped' = Crop(c, window_size', img_shape)
    /\ crop_pc' = "tracking"
    /\ UNCHANGED <<session_vars, xf_vars, scan_vars, filter_vars, file_vars, em_vars,
                   img_shape, img_cropped, n_cropped>>

\* lines 273-286: exactly one feature in the tracking image, its crop
TrackingCrop ==
    /\ crop_pc = "tracking"
    /\ n_cropped < MaxCropped
    /\ \E c \in TrackCentroids(img_shape) :
        /\ crystal_pos' = c
        /\ img_cropped' = Crop(c, window_size, img_shape)
    /\ n_cropped' = n_cropped + 1
    /\ crop_pc' = "cropped"
    /\ UNCHANGED <<session_vars, xf_vars, scan_vars, filter_vars, file_vars, em_vars,
                   img_shape, bbox, window_size, img0_cropped>>

\* line 302: register_translation(img0_cropped, img_cropped), which raises
\* ValueError for images of different shapes
RegisterTranslation ==
    /\ crop_pc = "cropped"
    /\ crop_pc' = IF img_cropped = img0_cropped THEN "tracking" ELSE "raised"
    /\ UNCHANGED <<session_vars, xf_vars, scan_vars, filter_vars, file_vars, em_vars,
                   img_shape, bbox, crystal_pos, window_size, img0_cropped,
                   img_cropped, n_cropped>>

InitCrop ==
    /\ NoSession
    /\ NoTransform
    /\ NoScan
    /\ NoFilter
    /\ NoPersistence
    /\ NoEMMenu
    /\ crop_pc = "setup"
    /\ img_shape \in ImageShapes
    /\ bbox = <<0, 0, 0, 0>>
    /\ crystal_pos = <<0, 0>>
    /\ window_size = 0
    /\ img0_cropped = <<0, 0>>
    /\ img_cropped = <<0, 0>>
    /\ n_cropped = 0

NextCrop ==
    \/ ReferenceCrop
    \/ TrackingCrop
    \/ RegisterTranslation

SpecCrop == InitCrop /\ [][NextCrop]_vars

\* ------------------------------------------------------------ statements

CapturedIndices == Indices(buffer) \cup Indices(image_buffer)

\* (a step from pc = "track_correct" to "track_wait" ends the correction and
\* does the frame-skip accounting at the clock t it ends with; the step that
\* leaves pc = "track_wait" is the idle wait and the count of the frame)
\* the capture and processing finished late: the clock has passed
\* t_start + acquisition_time
LateAt(t) == Later(t, NextInterval(t_start, acquisition_time, 1), acquisition_time.den)

\* the scheduled timestamps t_start + j * acquisition_time, j >= 1, that lie
\* before the clock
PassedTimestamps(t) ==
    {j \in 1..((t - t_start) * acquisition_time.den + 1) :
        Later(t, NextInterval(t_start, acquisition_time, j), acquisition_time.den)}

\* C1: every frame in the tracking buffer has an index that is a multiple of
\* image_interval and no frame in the diffraction buffer has; as long as no
\* frame was skipped, the i - 1 iterations made so far captured one frame each,
\* with the indices 1..i-1 (1..i once the tracking frame of iteration i is in).
C1_FrameKinds ==
    /\ \A n \in Indices(image_buffer) : n % image_interval = 0
    /\ \A n \in Indices(buffer) : n % image_interval # 0
    /\ (pc \in InLoop /\ skipped = {}) =>
        LET done == IF pc \in {"track_correct", "track_wait"} THEN i ELSE i - 1 IN
        /\ CapturedIndices = 1..done
        /\ Len(buffer) + Len(image_buffer) = done

\* an unskipped run with image_interval 5: frames 1..7, the tracking frame at 5
C1_Witness ==
    /\ pc = "loop" /\ image_interval = 5 /\ skipped = {}
    /\ image_buffer = <<5>>
    /\ buffer = <<1, 2, 3, 4, 6, 7>>

\* C2: when the capture and processing of a tracking frame end after the
\* scheduled timestamp t_start + acquisition_time, the frame counter advances
\* by one for every scheduled timestamp t_start + j * acquisition_time already
\* passed, and by one more for the frame itself after the wait (so by two or
\* more), and a skipped index is never in the diffraction buffer, the
\* tracking buffer or what is written at the end.
C2_FrameSkip ==
    /\ [](/\ skipped \cap CapturedIndices = {}
          /\ skipped \cap Indices(tiff_images) = {}
          /\ skipped \cap Indices(handed) = {})
    /\ [][/\ (pc = "track_correct" /\ pc' = "track_wait" /\ LateAt(now')) =>
                /\ i' = i + Cardinality(PassedTimestamps(now'))
                /\ i' >= i + 1
                /\ skipped' = skipped \cup ((i + 1)..i')
          /\ (pc = "track_wait" /\ pc' # "track_wait") => i' = i + 1]_vars

\* frames were skipped and a later frame was captured after them
C2_Witness ==
    /\ last_wait.skip >= 2
    /\ skipped # {}
    /\ \E n \in Indices(buffer) : \A m \in skipped : n > m

\* C3: when the capture and processing of a tracking frame end at or before
\* the scheduled timestamp t_start + acquisition_time, no frame is skipped,
\* the frame counter advances by exactly one and the loop is back at its test,
\* from where the next capture starts, no earlier than that timestamp.
C3_IdleWait ==
    [][/\ (pc = "track_correct" /\ pc' = "track_wait" /\ ~LateAt(now')) =>
            /\ i' = i
            /\ next_interval' = NextInterval(t_start, acquisition_time, 1)
       /\ (pc = "track_wait" /\ pc' # "track_wait" /\ last_wait.skip = 0) =>
            /\ i' = last_wait.i_before + 1
            /\ pc' = "loop"
            /\ ~Earlier(now', NextInterval(t_start, acquisition_time, 1),
                        acquisition_time.den)]_vars

\* a tracking frame finished early and the loop idled
C3_Witness ==
    /\ pc = "loop"
    /\ last_wait.i_before > 0
    /\ i = last_wait.i_before + 1
    /\ last_wait.t_end * last_wait.den < last_wait.ts * last_wait.den + last_wait.num
    /\ now > last_wait.t_end

\* C4: the stop flag is read at the loop test only.  With the flag set, a
\* capture that returns still appends its frame, a tracking frame still gets
\* its correction and its timing wait, the loop test then leaves the loop
\* without capturing anything more; the loop is left from its test with the
\* flag set, or by the break on an ambiguous tracking image, and from nowhere
\* else.
C4_StopPolledAtBoundary ==
    [][/\ (pc = "diff_capture" /\ stopEvent /\ pc' \notin {pc, "raised"}) =>
            (buffer' = Append(buffer, i) /\ pc' = "loop")
       /\ (pc = "track_capture" /\ stopEvent /\ pc' \notin {pc, "raised"}) =>
            (image_buffer' = Append(image_buffer, i) /\ pc' = "track_correct")
       /\ (pc = "track_correct" /\ stopEvent /\ features = 1
              /\ pc' \notin {pc, "raised"}) =>
            (commands' = commands + 1 /\ pc' = "track_wait")
       /\ (pc = "track_wait" /\ stopEvent /\ pc' # pc) =>
            (pc' = "loop" /\ ~Earlier(now', next_interval, acquisition_time.den))
       /\ (pc = "loop" /\ stopEvent /\ pc' # pc) =>
            (pc' = "finish" /\ UNCHANGED <<i, buffer, image_buffer>>)
       /\ (pc # "finish" /\ pc' = "finish") =>
            \/ pc = "loop" /\ stopEvent
            \/ pc = "track_correct" /\ features # 1]_vars

\* the flag was set while a tracking frame was being captured; the frame is in
\* its buffer, its correction was commanded, its wait was made, the loop is left
C4_Witness ==
    /\ pc = "finish"
    /\ stop_set.pc = "track_capture"
    /\ stop_set.i \in Indices(image_buffer)
    /\ last_wait.i_before = stop_set.i
    /\ commands >= 1
    /\ i = stop_set.i + last_wait.skip + 1

\* C5: a session whose stop flag was set during RECORDING and in which no
\* hardware call failed ends in STOPPED, with the frames handed off, and in no
\* other way; once STOPPED nothing is captured.
C5_StopEndsInStopped ==
    /\ (stop_set.pc \in InLoop /\ pc \in Terminal /\ error # "HardwareError") =>
            (pc = "stopped" /\ handed = buffer)
    /\ pc = "stopped" => (handed = buffer /\ image_buffer = <<>>)

\* C6: when find_holes reports more than one feature, in the reference image
\* or in a tracking image, the operator is told, no beam-shift command is
\* issued for that image, the running target and the hardware beam shift stay
\* as they were, and from then on nothing about the beam shift changes.
C6_AmbiguityStopsTracking ==
    [][/\ (pc = "track_correct" /\ features > 1 /\ pc' # pc) =>
            (message' = MsgTwoApertures /\ UNCHANGED <<bs0, beamshift, commands>>)
       /\ (pc = "ref_capture" /\ features' > 1 /\ pc' \notin {pc, "raised"}) =>
            (message' = MsgSeparated /\ bs0' = beamshift
                /\ UNCHANGED <<beamshift, commands>>)
       /\ (message \in {MsgSeparated, MsgTwoApertures}) =>
            UNCHANGED <<bs0, beamshift, commands>>]_vars

\* a correction was made, then a tracking image showed two features
C6_Witness ==
    /\ pc = "stopped"
    /\ features = 2
    /\ message = MsgTwoApertures
    /\ commands >= 1
    /\ bs0 = beamshift

\* C7: after an ambiguous image (more than one feature) the session is still
\* recording for as long as the stop flag is not set.
C7_AmbiguityKeepsRecording ==
    (message \in {MsgSeparated, MsgTwoApertures} /\ features > 1 /\ ~stopEvent) =>
        pc \in InLoop

\* C8: when a hardware call failed after frames were buffered, the buffered
\* frames were handed to the format writers.
C8_FlushOnFailure ==
    (pc = "raised" /\ error = "HardwareError"
        /\ Len(buffer) + Len(image_buffer) > 0) =>
        (handed = buffer /\ image_buffer = <<>>)

\* C9: in auto mode, from the reading of the beam shift at session start on,
\* the running target equals the hardware's beam shift (the last one
\* commanded, or the one read when none was) and equals the reading plus the
\* sum of the transformed drifts; every command is the previous target plus
\* transform . drift for a measured drift, and the target becomes that command.
C9_RunningTarget ==
    /\ []((mode = "auto" /\ pc \in InLoop \cup {"arm", "finish", "stopped", "returned"}) =>
            (bs0 = beamshift /\ bs0 = VecAdd(bs_init, drift_sum)))
    /\ [][commands' # commands =>
            /\ commands' = commands + 1
            /\ \E cc \in Drifts :
                  beamshift' = VecAdd(bs0, MatVec(calib_beamshift, cc))
            /\ bs0' = beamshift']_vars

\* two corrections were made and moved the target
C9_Witness ==
    /\ pc = "loop"
    /\ commands >= 2
    /\ drift_sum # <<0, 0>>
    /\ bs0 = VecAdd(bs_init, drift_sum)

\* C10: whenever a tracking correction is about to be computed, the session
\* holds a beam-shift calibration transform.
C10_CalibrationAvailable ==
    (pc = "track_correct" /\ SingleFeature(features)) => calib_beamshift # NoCalib

\* C11: at every iteration boundary of the recording loop and whenever a
\* diffraction frame is being captured, the diffraction focus is the value the
\* hardware had when the session began; it differs from that value only while
\* a tracking image or the reference image is being captured (or after a
\* capture call failed).
C11_FocusRestored ==
    /\ pc \in {"loop", "diff_capture"} => difffocus = focus_init
    /\ difffocus # focus_init => pc \in {"ref_capture", "track_capture", "raised"}

\* a tracking image was captured at the defocused setting, and the loop is
\* back at an iteration boundary with diffraction frames on either side of it
C11_Witness ==
    /\ pc = "loop"
    /\ mode = "auto"
    /\ diff_defocus # focus_init
    /\ focus_init # 0
    /\ image_buffer # <<>>
    /\ buffer # <<>>
    /\ buffer[Len(buffer)] > image_buffer[Len(image_buffer)]

\* the frame slots that elapsed during RECORDING
SlotsElapsed == Len(handed) + Len(tiff_images) + Cardinality(skipped)

\* C12: when the session has stopped, the oscillation angle is the absolute
\* rotation divided by the number of frame slots that elapsed during
\* RECORDING: diffraction frames, tracking frames and skipped slots.
C12_OscillationAngle ==
    pc = "stopped" =>
        /\ nframes = SlotsElapsed
        /\ osangle = [num |-> Abs(endangle - startangle), den |-> SlotsElapsed]

\* the session left ARMED: the frame counter was set
Recording == i >= 1

\* C13: with a camera that is not simulated the session waits in ARMED,
\* appending no frame, until a reading of the stage angle differs from the
\* start angle by at least the activation threshold (the two compared as the
\* doubles they are), and the start angle it records is that reading; with a
\* simulated camera the recorded start angle is the angle read when the
\* session began.
C13_Armed ==
    /\ (camtype # "simulate" /\ pc = "arm") =>
            /\ BelowThreshold(a, a0)
            /\ Abs(a - a0) <= ACTIVATION_THRESHOLD
            /\ buffer = <<>> /\ image_buffer = <<>> /\ ~Recording
    /\ (camtype # "simulate" /\ Recording) =>
            /\ ~BelowThreshold(startangle, a0)
            /\ Abs(startangle - a0) >= ACTIVATION_THRESHOLD
            /\ startangle = a
    /\ (camtype = "simulate" /\ Recording) => startangle = a0
    /\ (buffer # <<>> \/ image_buffer # <<>>) => Recording

\* ARMED was left on a reading past the threshold and a frame was recorded
C13_Witness ==
    /\ camtype # "simulate"
    /\ a0 # 0
    /\ ~BelowThreshold(startangle, a0)
    /\ startangle # a0
    /\ buffer # <<>>

\* C14: for an integer-invertible rotation, any translation, reference
\* position, image position and point, converting a stage position to a pixel
\* coordinate and back gives the stage position, and converting a pixel
\* coordinate to a stage position and back gives the pixel coordinate.
C14_StagePixelRoundTrip ==
    /\ applied = <<"stagepos_to_pixelcoord", "pixelcoord_to_stagepos">> => back = arg
    /\ applied = <<"pixelcoord_to_stagepos", "stagepos_to_pixelcoord">> => back = arg

\* a round trip through a rotation that is not symmetric, with a translation,
\* for an image taken away from the reference, whose intermediate value
\* differs from the point
C14_Witness ==
    /\ applied = <<"stagepos_to_pixelcoord", "pixelcoord_to_stagepos">>
    /\ rotation[1][2] # rotation[2][1]
    /\ translation # <<0, 0>>
    /\ image_pos # VecAdd(reference_position, translation)
    /\ val # arg
    /\ back = arg

\* the stage offset of the image from the reference, less the translation
Offset == VecSub(VecSub(image_pos, reference_position), translation)

\* C15: reference_setting_to_pixelcoord returns the point less the offset
\* (image position - reference position - translation) taken through the
\* inverse rotation; pixelcoord_to_reference_setting undoes it, in either
\* order; and for an image taken at reference position + translation both
\* return the point they were given.
C15_ReferenceSetting ==
    /\ (Len(applied) >= 1 /\ applied[1] = "reference_setting_to_pixelcoord") =>
            VecMat(VecSub(arg, val), rotation) = Offset
    /\ (Len(applied) >= 1 /\ applied[1] = "pixelcoord_to_reference_setting") =>
            VecMat(VecSub(val, arg), rotation) = Offset
    /\ applied = <<"reference_setting_to_pixelcoord", "pixelcoord_to_reference_setting">>
            => back = arg
    /\ applied = <<"pixelcoord_to_reference_setting", "reference_setting_to_pixelcoord">>
            => back = arg
    /\ (Len(applied) >= 1 /\ Offset = <<0, 0>>
           /\ applied[1] \in {"reference_setting_to_pixelcoord",
                               "pixelcoord_to_reference_setting"}) => val = arg

\* the identity case with a translation and a reference away from the origin
C15_Witness ==
    /\ applied = <<"pixelcoord_to_reference_setting", "reference_setting_to_pixelcoord">>
    /\ translation # <<0, 0>>
    /\ reference_position # <<0, 0>>
    /\ Offset = <<0, 0>>
    /\ val = arg

\* the calls that send the stage or the deflector somewhere
PositionOps == {"set", "set_xy_with_backlash_correction", "stage.xy", "imageshift.set"}

PositionCommands == {k \in 1..Len(log) : log[k].op \in PositionOps}

LastPositionCommand ==
    log[CHOOSE k \in PositionCommands : \A l \in PositionCommands : l <= k]

StepRoutines == {"calibrate_stage", "calibrate_stage_from_stagepos"}

\* C16: when a calibration scan has completed normally, the last position
\* command it issued names the position the instrument had when the scan was
\* called, and the instrument is there: the grid scan sets the stage to the
\* center read from its first image, the step scan sets the stage to the
\* position read at its start, the image-shift scan sets the image shift read
\* at its start.
C16_PositionRestored ==
    (scan_pc = "done" /\ routine # "calibrate_stage_all") =>
        /\ PositionCommands # {}
        /\ start = called_at
        /\ LastPositionCommand.at = called_at
        /\ routine = "calibrate_stage_lowmag_live" =>
                (LastPositionCommand.op = "set" /\ stage = called_at)
        /\ routine \in StepRoutines =>
                (LastPositionCommand.op = "stage.xy" /\ stage = called_at)
        /\ routine = "Calibrate_Imageshift" =>
                (LastPositionCommand.op = "imageshift.set" /\ imageshift = called_at)

\* a step scan of two runs, begun away from the origin, is through
C16_Witness ==
    /\ scan_pc = "done"
    /\ routine = "calibrate_stage_from_stagepos"
    /\ called_at # <<0, 0>>
    /\ Len(args) = 2
    /\ Len(pairs) >= 3

Resets == {k \in 1..Len(log) : log[k].op = "reset_xy"}

\* a backlash reset opens the log, and one follows the last position command
ResetBeforeAndAfter ==
    /\ log # <<>>
    /\ log[1].op = "reset_xy"
    /\ \E k \in Resets : \A l \in PositionCommands : l < k

\* C17, as stated: every stage calibration scan that has completed, in grid
\* mode and in step mode, issued a backlash reset before its first move and
\* capture and another after the position was restored.
C17_BacklashResetEveryScan ==
    (scan_pc = "done" /\ routine \in StepRoutines \cup {"calibrate_stage_lowmag_live"})
        => ResetBeforeAndAfter

\* C17, amended: the grid scan that has completed issued a backlash reset
\* before its first move and capture and another after the center was
\* restored; the step scan issues no backlash reset at all: its steps are
\* moves with backlash correction and its return to the start is a plain
\* position assignment.
C17_BacklashResetGridOnly ==
    /\ (scan_pc = "done" /\ routine = "calibrate_stage_lowmag_live")
            => ResetBeforeAndAfter
    /\ routine = "calibrate_stage_lowmag_live" => (log # <<>> /\ log[1].op = "reset_xy")
    /\ routine \in StepRoutines =>
            /\ Resets = {}
            /\ \A k \in PositionCommands :
                    log[k].op \in {"set_xy_with_backlash_correction", "stage.xy"}

\* a grid scan of nine points is through
C17_Witness ==
    /\ scan_pc = "done"
    /\ routine = "calibrate_stage_lowmag_live"
    /\ Len(stagepos) = 9
    /\ called_at # <<0, 0>>

\* the run a log entry belongs to: the returns to the start before it
RunOf(k) == Cardinality({l \in 1..(k - 1) : log[l].op = "stage.xy"})

Scale(n, v) == <<n * v[1], n * v[2]>>

\* where the stage was before the move of log entry k
PositionBefore(k) == IF k = 1 THEN called_at ELSE log[k - 1].at

\* C18: in a step scan of several runs the stage is at the scan's starting
\* position whenever the first image of a run is asked for, the stage is set
\* back to the starting position after the last step of every run, and every
\* step moves the stage by that run's step vector from where it is.
C18_StepRuns ==
    routine \in StepRoutines =>
        /\ \A k \in 1..Len(log) :
                /\ log[k].op = "stage.xy" => log[k].at = called_at
                /\ log[k].op = "set_xy_with_backlash_correction" =>
                        log[k].at = VecAdd(PositionBefore(k), args[RunOf(k) + 1][2])
        /\ scan_pc \in {"baseline", "fit", "done"} =>
                /\ stage = called_at
                /\ scan_i > 0 => log[Len(log)].op = "stage.xy"
        /\ scan_pc = "steps" => stage = VecAdd(called_at, Scale(scan_j - 1, args[scan_i + 1][2]))
        /\ RunOf(Len(log) + 1) <= Len(args)

\* both runs of a step scan are through, the first of two steps or more
C18_Witness ==
    /\ routine \in StepRoutines
    /\ scan_pc = "done"
    /\ Len(args) = 2
    /\ args[1][1] >= 3
    /\ RunOf(Len(log) + 1) = 2
    /\ called_at # <<0, 0>>

\* C19: calibrate_stage called for a magnification whose pixel size is 0.0 or
\* the sentinel 1.0 fails with a ValueError before any hardware call: no
\* move, no capture, the stage where it was.
C19_InvalidPixelsize ==
    (routine = "calibrate_stage" /\ pixelsize \in {0, 1}) =>
        /\ scan_pc = "raised"
        /\ scan_error = "ValueError"
        /\ log = <<>>
        /\ stage = called_at

\* the sentinel pixel size was met with the stage away from the origin
C19_Witness ==
    /\ routine = "calibrate_stage"
    /\ pixelsize = 1
    /\ scan_error = "ValueError"
    /\ stage # <<0, 0>>

RangeOf(m) == {mag_ranges[m][k] : k \in 1..Len(mag_ranges[m])}

\* C20: calibrate_stage_all goes through every configured magnification of
\* lowmag and mag1 and returns a configuration: it ends by returning, never by
\* an exception, with stagematrix and pixelsize entries for the same
\* magnifications, all of them configured ones.
C20_SweepReturns ==
    (routine = "calibrate_stage_all") =>
        /\ scan_pc = "done"
        /\ scan_error = ""
        /\ cfg.lowmag.stagematrix = cfg.lowmag.pixelsize
        /\ cfg.mag1.stagematrix = cfg.mag1.pixelsize
        /\ cfg.lowmag.stagematrix \subseteq RangeOf("lowmag")
        /\ cfg.mag1.stagematrix \subseteq RangeOf("mag1")


\* C21: where the z-scores are defined, get_outlier_filter rejects a sample
\* exactly when the absolute z-score of its norm exceeds the threshold, and
\* keeps one whose absolute z-score is at or below it; of 20 samples of norm
\* about 10 and 2 of norm 100 it rejects, at threshold 2, exactly the 2.
C21_RejectsAboveThreshold ==
    filter_pc \in {"filtered", "selected"} =>
        /\ Spread(Norms(data)) > 0 =>
             \A k \in 1..Len(data) :
                 sel[k] <=> Inlier_inclusive(Norms(data), k, threshold)
        /\ (data = TwentyAndTwo /\ threshold = 2) =>
             \A k \in 1..22 : sel[k] <=> k \notin Injected

\* C22: a grid calibration with gridsize g and step s that has ended moved
\* the stage to exactly g*g positions, the points center + (a*s, b*s) of a
\* g-by-g grid symmetric around the center, took one image at each and
\* collected g*g samples; the reference position of the CalibStage it
\* returns is the stage position read from the center image.
GridMoves == SelectSeq(log, LAMBDA c : c.op = "set")
C22_GridPositions ==
    (routine = "calibrate_stage_lowmag_live" /\ scan_pc = "done") =>
        LET moves == SubSeq(GridMoves, 1, Len(GridMoves) - 1)
            targets == {moves[k].at : k \in 1..Len(moves)}
        IN  /\ Len(moves) = gridsize * gridsize
            /\ Cardinality(targets) = gridsize * gridsize
            /\ \A p \in targets :
                   /\ (p[1] - start[1]) % stepsize = 0
                   /\ (p[2] - start[2]) % stepsize = 0
                   /\ VecSub(<<2 * start[1], 2 * start[2]>>, p) \in targets
            /\ Len(stagepos) = gridsize * gridsize
            /\ Len(pairs) = gridsize * gridsize
            /\ reference_position = called_at

\* C23: CalibStage.from_file returns the persisted calibration when the file
\* can be read; when the file cannot be opened it fails with an error whose
\* message names the file and the routine instamatic.calibrate_stage_lowmag;
\* what it returns is never a partial or default calibration: it returns
\* the persisted object, attribute for attribute, or nothing.
InMessage(s) == \E k \in 1..Len(file_error.message) : file_error.message[k] = s
C23_FromFile ==
    /\ file_pc = "returned" =>
         /\ persisted # NoObject
         /\ loaded.rotation = persisted.rotation
         /\ loaded.translation = persisted.translation
         /\ loaded.reference_position = persisted.reference_position
         /\ loaded.has_data = persisted.has_data
    /\ (file_pc = "raised" /\ fs.state # "file") =>
         /\ file_error.type = "IOError"
         /\ InMessage(fn)
         /\ InMessage("instamatic.calibrate_stage_lowmag")
    /\ file_pc # "returned" => loaded = NoObject
C23_Witness ==
    /\ file_pc = "returned"
    /\ loaded.reference_position = <<100, -50>>
    /\ loaded = CalibStageObject(rotation, translation, reference_position, has_data)
C23_WitnessMissing ==
    /\ file_pc = "raised"
    /\ fs.state = "absent"
    /\ file_error.type = "IOError"

\* C24: while keep_in_focus is open, a button press leaves the EMMENU window
\* active and does not switch back to the window active before; the switch
\* back is made once, when the context exits, and only if EMMENU was not
\* the active window when the context was entered.
C24_KeepInFocus ==
    /\ last_press.focus = "open" => last_press.active_after = "EMMENU4"
    /\ \A k \in 1..Len(switches) :
           /\ switches[k] # "press"
           /\ switches[k] = "exit" => (k = Len(switches) /\ ~was_active)

\* C25: a button press outside keep_in_focus clicks the button in the EMMENU
\* window and leaves the mouse pointer where it was before the press and
\* the window active that was active before the press: the other window if
\* EMMENU was not active, EMMENU itself if it was.
C25_PressRestores ==
    last_press.focus = "closed" =>
        /\ last_press.clicked_at = Buttons[last_press.button]
        /\ last_press.clicked_in = "EMMENU4"
        /\ last_press.pointer_after = last_press.pointer_before
        /\ last_press.active_after = last_press.active_before
C25_Witness ==
    /\ last_press.focus = "closed"
    /\ last_press.button = "record"
    /\ last_press.active_before = "browser"
    /\ last_press.pointer_before = <<300, 200>>
    /\ win_active = "browser"
    /\ pointer = <<300, 200>>
C25_WitnessActive ==
    /\ last_press.focus = "closed"
    /\ last_press.active_before = "EMMENU4"
    /\ win_previous = "terminal"
    /\ win_active = "EMMENU4"

\* the samples of run i of a step scan, and the images taken, in order
SamplesOf(run) == {k \in 1..Len(pairs) : pairs[k][2][2] = run}
ImagesTaken == SelectSeq(log, LAMBDA c : c.op = "getImage")

\* the displacements of the step scan's samples as collected: stage_shifts
\* before the outlier filter has dropped any
CollectedShifts == IF scan_pc = "done" THEN shifts_all ELSE stage_shifts

\* C26: in a step scan a run of n_steps contributes exactly n_steps - 1
\* samples (seen when the run is through); sample j of the run correlates
\* the image taken after step j with the image taken immediately before it
\* in the same run, and its displacement is the run's step vector; the
\* outlier filter then drops a sample's displacement together with its pixel
\* shift.  In a grid scan sample k correlates the image of grid point k with the center
\* image, and when the scan has ended its displacement is the stage position
\* that image was taken at minus the center position.
C26_SamplePairs ==
    /\ routine \in StepRoutines =>
         /\ Len(CollectedShifts) = Len(pairs)
         /\ scan_pc = "done" =>
                /\ Len(data) = Len(pairs)
                /\ stage_shifts = Select(CollectedShifts, sel)
                /\ translations = Select(data, sel)
         /\ \A run \in 0..(Len(args) - 1) :
                /\ (scan_i > run \/ scan_pc \in {"fit", "done"}) =>
                       Cardinality(SamplesOf(run)) = args[run + 1][1] - 1
                /\ \A k \in SamplesOf(run) :
                       LET j == 1 + Cardinality({l \in SamplesOf(run) : l < k})
                       IN  /\ pairs[k][2] = <<j, run>>
                           /\ pairs[k][1] = <<j - 1, run>>
                           /\ CollectedShifts[k] = args[run + 1][2]
         /\ \A k \in 1..Len(pairs) : pairs[k][2][2] \in 0..(Len(args) - 1)
    /\ routine = "calibrate_stage_lowmag_live" =>
         /\ \A k \in 1..Len(pairs) :
                pairs[k] = <<CenterImage, GridImage(k)>>
         /\ scan_pc = "done" =>
                /\ Len(stagepos) = Len(pairs)
                /\ \A k \in 1..Len(stagepos) :
                       stagepos[k] = VecSub(ImagesTaken[k + 1].at, ImagesTaken[1].at)
C26_Witness ==
    /\ routine \in StepRoutines
    /\ scan_pc = "done"
    /\ Len(args) = 2
    /\ Len(pairs) = 4
    /\ pairs[4] = <<<<1, 1>>, <<2, 1>>>>
    /\ Len(stage_shifts) < Len(pairs)
C26_WitnessGrid ==
    /\ routine = "calibrate_stage_lowmag_live"
    /\ scan_pc = "done"
    /\ Len(pairs) = 9
    /\ stagepos[1] = <<-50, -50>>

\* C27: the window size computed from the reference feature is the diagonal
\* of its bounding box divided by the square root of 2, rounded up to an
\* even number: it is even and never smaller than diagonal / sqrt(2), which
\* is to say 2 * window_size^2 >= diagonal^2.
C27_WindowFromDiagonal ==
    crop_pc \in {"tracking", "cropped", "raised"} =>
        /\ window_size % 2 = 0
        /\ 2 * window_size * window_size >=
               (bbox[3] - bbox[1]) * (bbox[3] - bbox[1])
                 + (bbox[4] - bbox[2]) * (bbox[4] - bbox[2])

\* C27, amended: the window size is the height of the bounding box divided
\* by 1.414, cut to an integer and raised by one when odd: it is even, and
\* more than height / 1.414 - 1 and at most height / 1.414 + 1.
C27_WindowFromHeight ==
    crop_pc \in {"tracking", "cropped", "raised"} =>
        /\ window_size % 2 = 0
        /\ 1414 * window_size > 1000 * (bbox[3] - bbox[1]) - 1414
        /\ 1414 * window_size <= 1000 * (bbox[3] - bbox[1]) + 1414
C27_Witness ==
    /\ crop_pc = "tracking"
    /\ bbox[3] - bbox[1] = 25
    /\ window_size = 18

\* C28: every tracking image with exactly one feature, wherever its centroid
\* lies, is cropped to window_size x window_size, the dimensions of the
\* reference crop, and no step of the recording changes the reference crop
\* or window_size.
C28_SameSizeCrop ==
    [][crop_pc = "tracking" =>
          /\ img_cropped' = <<window_size, window_size>>
          /\ img_cropped' = img0_cropped
          /\ UNCHANGED <<window_size, img0_cropped>>]_vars

Extends(old, new) == Len(old) <= Len(new) /\ SubSeq(new, 1, Len(old)) = old
Increasing(buf) == \A k \in 1..(Len(buf) - 1) : buf[k] < buf[k + 1]

\* C29: while the loop runs, every step leaves both frame buffers as they
\* were or with entries added at the end; in every state the frame indices
\* of each buffer are strictly increasing and no index is in both; once the
\* frames are handed off the tracking buffer is empty.
C29_BuffersAppendOnly ==
    [][/\ pc \in InLoop =>
             (Extends(buffer, buffer') /\ Extends(image_buffer, image_buffer'))
       /\ Increasing(buffer') /\ Increasing(image_buffer')
       /\ Indices(buffer') \cap Indices(image_buffer') = {}
       /\ pc' = "stopped" => (image_buffer' = <<>> /\ handed' = buffer')]_vars
C29_Witness ==
    /\ pc = "stopped"
    /\ Len(handed) >= 3
    /\ Len(tiff_images) >= 2
    /\ image_buffer = <<>>

\* C30: in a session whose mode is not auto no step issues a beam-shift
\* command or runs the feature detector, and tracking frames are still
\* captured: once the frame counter has reached image_interval (an interval
\* of two frames or more) and the loop has gone on from there without a stop
\* request, the frame image_interval is in the tracking buffer or handed off
\* with it.
C30_ManualTracking ==
    [][mode' # "auto" =>
          /\ UNCHANGED <<commands, beamshift, features>>
          /\ (i' >= image_interval' /\ image_interval' > 1 /\ ~stopEvent'
                /\ pc' \notin {"loop", "track_capture"}) =>
                 image_interval' \in (Indices(image_buffer') \cup Indices(tiff_images'))]_vars

\* C35: a call of live_view_is_running, or of locate_buttons that finds its
\* buttons, leaves the window active that was active before the call:
\* EMMENU if EMMENU was active, the other window if another was.
C35_LookRestores ==
    (last_look.by # "" /\ ~last_look.raised) =>
        last_look.active_after = last_look.active_before

\* the samples that the filter keeps, and the k-th of them in the original
\* order
KeptSamples == {k \in 1..Len(sel) : sel[k]}
NthKept(k) == CHOOSE j \in KeptSamples : Cardinality({l \in KeptSamples : l <= j}) = k

\* C31: after the outlier filter has been applied the surviving pixel
\* translations and the surviving stage displacements are as many as the
\* samples kept, and the k-th of each comes from the k-th kept sample: a
\* sample is removed from both sequences or from neither, and the order is
\* the original one.
C31_FilteredAligned ==
    filter_pc = "selected" =>
        /\ Len(translations) = Cardinality(KeptSamples)
        /\ Len(shifts_sel) = Cardinality(KeptSamples)
        /\ \A k \in 1..Cardinality(KeptSamples) :
               /\ translations[k] = data[NthKept(k)]
               /\ shifts_sel[k] = shifts_all[NthKept(k)]
C31_Witness ==
    /\ filter_pc = "selected"
    /\ Len(data) = 22
    /\ Len(translations) = 20
    /\ shifts_sel[7] = shifts_all[8]
    /\ shifts_sel[7] # shifts_all[7]

\* C32: a session whose recording loop has ended, by the stop flag or by the
\* ambiguity break, has unblocked the camera it blocked and has blanked again
\* the beam it unblanked; while the loop runs the camera is blocked and the
\* beam is unblanked if that was asked for; a session that returned on an
\* ambiguous reference image has neither blocked the camera nor unblanked
\* the beam.
C32_CameraAndBeamReleased ==
    /\ pc = "stopped" => (~cam_blocked /\ beamblank)
    /\ pc \in {"loop", "diff_capture", "track_capture", "track_correct", "track_wait",
               "finish"} =>
           (cam_blocked /\ (beamblank <=> ~unblank_beam))
    /\ pc = "returned" => (~cam_blocked /\ beamblank)
C32_Witness ==
    /\ pc = "stopped"
    /\ unblank_beam
    /\ beamblank
    /\ ~cam_blocked
    /\ message = MsgTwoApertures
    /\ ~stopEvent

\* C33: whenever the loop schedules a tracking frame the divisor i - 1 of the
\* average acquisition time is at least 1 and the division raises nothing,
\* for every image_interval >= 1; a session with image_interval = 1 gets
\* past its first frame.
C33_DivisorAtLeastOne ==
    [][(pc = "loop" /\ pc' \notin {"loop", "finish"} /\ IsTrackingFrame(i)) =>
           (i - 1 >= 1 /\ error' # "ZeroDivisionError")]_vars

\* C34: a session with a real camera that waits for the rotation to begin
\* and has its stop flag set ends, whatever the stage does.
C34_StopEndsArmed ==
    (pc = "arm" /\ camtype # "simulate" /\ stopEvent) ~> (pc \in Terminal)

====
